---- MODULE Spec2Model ----
(***************************************************************************)
(* A model of solid-lightweight-charts: the Chart Host (TimeChart,         *)
(* PriceChart, YieldCurveChart share one structure), its Pane              *)
(* declarations, its Series binders with their four effects, the pane and  *)
(* series primitive lifecycle, the subscription effects, the resize effect *)
(* and the tooltip.                                                        *)
(*                                                                         *)
(* The reactive runtime is modelled by what it does to this code: a write  *)
(* to a reactive input synchronously re-runs every effect that read it     *)
(* (first the effect's registered cleanup, then its body), and disposing   *)
(* an owner disposes what it owns in reverse creation order and then runs  *)
(* its own cleanups.  One action is one such synchronous step.             *)
(*                                                                         *)
(* The charting library is an opaque collaborator.  What is kept of it is  *)
(* what the calls of this code do to it: the list of panes, the primitives *)
(* attached to each pane and each series, the series of the chart and the  *)
(* handlers subscribed to each event source.  `calls` is the sequence of   *)
(* library calls and user callbacks issued by the last step.               *)
(***************************************************************************)
EXTENDS Integers, Sequences, FiniteSets, TLC

----------------------------------------------------------------------------
(* Bounds of the model *)

MaxPanes == 2          \* Pane declarations activated in one chart
MaxSeries == 2         \* Series binders activated in one chart
MaxPrimLen == 2        \* length of a primitive list
MaxDataRuns == 2       \* re-runs of one binder's data effect

----------------------------------------------------------------------------
(* Values *)

NoIndex == -1          \* PaneProps.index not given (undefined)
NoPane == -1           \* chart().panes()[i] is undefined

PanePrims == {"p1", "p2"}        \* pane primitive objects
SeriesPrims == {"s1", "s2"}      \* series primitive objects

\* the duplicate-free lists over S of at most MaxPrimLen elements
ListsOver(S) ==
  UNION { { l \in [1..n -> S] : \A i, j \in 1..n : i # j => l[i] # l[j] }
          : n \in 0..MaxPrimLen }

Range(s) == { s[i] : i \in 1..Len(s) }

\* the number of times x occurs in the sequence s
Count(s, x) == Cardinality({ i \in 1..Len(s) : s[i] = x })

\* one library call or user callback: f its name, on the object or
\* declaration it is made on, n a number argument, p a primitive-list
\* argument, v a data or marker argument
Call(f, on, n, p, v) == [f |-> f, on |-> on, n |-> n, p |-> p, v |-> v]

\* the calls of s whose name is in F
Named(s, F) == SelectSeq(s, LAMBDA c : c.f \in F)

VARIABLES
  host,        \* the Chart Host component: its status and its inputs
  chart,       \* the chart instance: status, __nextPaneIndex, panes()
  subs,        \* the handlers subscribed to each event source of the chart
  panes,       \* the Pane declarations, in activation order
  binders,     \* the Series binders, in activation order
  lib,         \* the series of the chart, one per binder
  paneAtt,     \* the primitives attached to each pane object
  tip,         \* the Tooltip
  calls,       \* the library calls and callbacks of the last step
  last         \* the last step: its name and its inputs

vars == <<host, chart, subs, panes, binders, lib, paneAtt, tip, calls, last>>


----------------------------------------------------------------------------
(* The state as one record, threaded through the calls of a step *)

World ==
  [host |-> host, chart |-> chart, subs |-> subs, panes |-> panes,
   binders |-> binders, lib |-> lib, paneAtt |-> paneAtt, tip |-> tip,
   calls |-> <<>>]

Commit(w, l) ==
  /\ host' = w.host
  /\ chart' = w.chart
  /\ subs' = w.subs
  /\ panes' = w.panes
  /\ binders' = w.binders
  /\ lib' = w.lib
  /\ paneAtt' = w.paneAtt
  /\ tip' = w.tip
  /\ calls' = w.calls
  /\ last' = l

\* the step taken last: its name, the declaration and the binder it acts
\* on, and the event it delivers, if any
Step(op, d, b) == [op |-> op, d |-> d, b |-> b, arg |-> <<>>]

Emit(w, c) == [w EXCEPT !.calls = Append(@, c)]

----------------------------------------------------------------------------
(* helpers/utils.ts: the pane primitive coordinator *)

\* IPaneApi.detachPrimitive / attachPrimitive as the library performs them:
\* detach drops the primitive from the pane, attach adds it once more
PaneDetachPrimitive(w, pane, primitive) ==
  Emit([w EXCEPT !.paneAtt[pane] = SelectSeq(@, LAMBDA q : q # primitive)],
       Call("pane.detachPrimitive", pane, 0, <<primitive>>, <<>>))

PaneAttachPrimitive(w, pane, primitive) ==
  Emit([w EXCEPT !.paneAtt[pane] = Append(@, primitive)],
       Call("pane.attachPrimitive", pane, 0, <<primitive>>, <<>>))

\* for (const primitive of primitives) pane.detachPrimitive(primitive)
RECURSIVE DetachEach(_, _, _)
DetachEach(w, primitives, pane) ==
  IF primitives = <<>> THEN w
  ELSE DetachEach(PaneDetachPrimitive(w, pane, Head(primitives)),
                  Tail(primitives), pane)

\* for (const primitive of primitives) pane.attachPrimitive(primitive)
RECURSIVE AttachEach(_, _, _)
AttachEach(w, primitives, pane) ==
  IF primitives = <<>> THEN w
  ELSE AttachEach(PaneAttachPrimitive(w, pane, Head(primitives)),
                  Tail(primitives), pane)

detachPanePrimitives(w, primitives, pane) ==
  IF pane = NoPane THEN w ELSE DetachEach(w, primitives, pane)

\* attachPanePrimitives without line 24
attachWithoutDetach(w, primitives, pane) ==
  IF pane = NoPane THEN w ELSE AttachEach(w, primitives, pane)

attachPanePrimitives(w, primitives, pane) ==
  IF pane = NoPane THEN w
  ELSE AttachEach(detachPanePrimitives(w, primitives, pane), primitives, pane)

----------------------------------------------------------------------------
(* The Pane declaration: TimeChart.tsx 199-229 (PriceChart and             *)
(* YieldCurveChart are the same text)                                      *)

\* () => chart.__nextPaneIndex
getNextPaneIndexNoIncrement(w) == [idx |-> w.chart.nextPaneIndex, w |-> w]

\* () => ++chart.__nextPaneIndex
getNextPaneIndexPreIncrement(w) ==
  [idx |-> w.chart.nextPaneIndex + 1,
   w |-> [w EXCEPT !.chart.nextPaneIndex = @ + 1]]

\* chart.__getNextPaneIndex = () => chart.__nextPaneIndex++
getNextPaneIndex(w) ==
  [idx |-> w.chart.nextPaneIndex,
   w |-> [w EXCEPT !.chart.nextPaneIndex = @ + 1]]

\* a resolution that takes a counter value for every declaration
ResolvePaneIdxCounting(w, index) ==
  [idx |-> IF index # NoIndex THEN index ELSE w.chart.nextPaneIndex,
   w |-> [w EXCEPT !.chart.nextPaneIndex = @ + 1]]

\* a resolution with || in place of ??: an index of 0 counts as not given
ResolvePaneIdxFalsy(w, index) ==
  IF index # NoIndex /\ index # 0 THEN [idx |-> index, w |-> w]
  ELSE getNextPaneIndex(w)

\* the function given to createMemo:
\*   _props.index ?? chart().__getNextPaneIndex()
ResolvePaneIdx(w, index) ==
  IF index # NoIndex THEN [idx |-> index, w |-> w] ELSE getNextPaneIndex(w)

\* paneIdx as a plain function of the Pane's input, evaluated at each read
paneIdxUnmemoized(w, d) ==
  IF d = 0 THEN [idx |-> 0, w |-> w] ELSE ResolvePaneIdx(w, w.panes[d].index)

\* a read of the accessor paneIdx(): the memo's value, or 0 from the default
\* PaneContext when the reader has no enclosing Pane (d = 0)
paneIdx(w, d) ==
  IF d = 0 THEN [idx |-> 0, w |-> w] ELSE [idx |-> w.panes[d].memo, w |-> w]

\* panePrimitives(): _props.primitives, or [] from the default PaneContext
panePrimitives(w, d) == IF d = 0 THEN <<>> ELSE w.panes[d].prims

\* primitives() of the Chart Host: _props.primitives
chartPrimitives(w) == w.host.prims

\* onChartPrimitivesAttached / onPanePrimitivesAttached, and the Detached
\* pair: the user's callback of the Chart Host or of the Pane declaration;
\* the default PaneContext's callbacks do nothing
PrimitivesCallback(w, scope, what, d, primitives) ==
  IF scope = "chart"
  THEN Emit(w, Call(IF what = "attached" THEN "onPrimitivesAttached"
                    ELSE "onPrimitivesDetached", 0, 0, primitives, <<>>))
  ELSE IF d = 0 THEN w
  ELSE Emit(w, Call(IF what = "attached" THEN "pane.onAttachPrimitives"
                    ELSE "pane.onDetachPrimitives", d, 0, primitives, <<>>))

----------------------------------------------------------------------------
(* The Series binder: TimeChart.tsx 251-344.  CustomSeries (364-454) and   *)
(* createCustomSeries (helpers/utils.ts 150-243) run the same steps after  *)
(* addCustomSeries.                                                        *)

\* a marker-derivation function given as the markers input, applied to data;
\* "default" is mergeProps' () => []
ApplyMarkers(fn, data) ==
  IF fn = "default" \/ data = <<>> THEN <<>>
  ELSE IF fn = "last" THEN <<data[Len(data)]>>
  ELSE <<data[1]>>

\* chart().addSeries(definition, options, paneIdx) as the library performs
\* it: the series goes to the pane of that index, or to a new last pane when
\* the chart has no pane of that index yet
addSeries(w, b, idx, custom) ==
  LET at == IF idx < w.chart.numPanes THEN idx ELSE w.chart.numPanes IN
  Emit([w EXCEPT !.chart.numPanes = IF at = @ THEN @ + 1 ELSE @,
                 !.lib = Append(@, [state |-> "added", pane |-> at,
                                    data |-> <<>>, plugins |-> <<>>,
                                    att |-> <<>>, opts |-> "none"])],
       Call(IF custom THEN "chart.addCustomSeries" ELSE "chart.addSeries",
            b, idx, <<>>, <<>>))

\* chart().panes()[i]
PaneAt(w, i) == IF i >= 0 /\ i < w.chart.numPanes THEN i ELSE NoPane

\* the data effect with the markers derived first, from the data the series
\* holds before setData
DataEffectStaleMarkers(w, b) ==
  LET data == w.binders[b].data
      dataMarkers == ApplyMarkers(w.binders[b].mfn, w.lib[b].data)
      w1 == Emit(w, Call("markers", b, 0, <<>>, w.lib[b].data))
      w2 == Emit([w1 EXCEPT !.lib[b].data = data],
                 Call("series.setData", b, 0, <<>>, data))
      w3 == Emit(w2, Call("onSetData", b, 0, <<>>, data))
      w4 == Emit([w3 EXCEPT !.lib[b].plugins = Append(@, dataMarkers)],
                 Call("createSeriesMarkers", b, 0, <<>>, dataMarkers))
  IN Emit(w4, Call("onSetMarkers", b, 0, <<>>, dataMarkers))

\* the data effect, 291-298
DataEffect(w, b) ==
  LET data == w.binders[b].data
      w1 == Emit([w EXCEPT !.lib[b].data = data],
                 Call("series.setData", b, 0, <<>>, data))
      w2 == Emit(w1, Call("onSetData", b, 0, <<>>, data))
      dataMarkers == ApplyMarkers(w2.binders[b].mfn, w2.binders[b].data)
      w3 == Emit(w2, Call("markers", b, 0, <<>>, w2.binders[b].data))
      w4 == Emit([w3 EXCEPT !.lib[b].plugins = Append(@, dataMarkers)],
                 Call("createSeriesMarkers", b, 0, <<>>, dataMarkers))
  IN Emit(w4, Call("onSetMarkers", b, 0, <<>>, dataMarkers))

\* the pane-scope primitive effect choosing its scope by the presence of an
\* enclosing Pane declaration instead of paneIdx() === 0
PanePrimitivesEffectByDeclaration(w, b) ==
  LET d == w.binders[b].decl
      r1 == paneIdx(w, d)
      currentPanePrimitives ==
        IF d = 0 THEN chartPrimitives(w) ELSE panePrimitives(w, d)
      attachCallback == IF d = 0 THEN "chart" ELSE "pane"
      detachCallback == IF d = 0 THEN "chart" ELSE "pane"
      w1 == attachPanePrimitives(r1.w, currentPanePrimitives,
                                 w.binders[b].seriesPane)
      w2 == PrimitivesCallback(w1, attachCallback, "attached", d,
                               currentPanePrimitives)
  IN [w2 EXCEPT !.binders[b].capPane = currentPanePrimitives,
                !.binders[b].capDetach = detachCallback,
                !.binders[b].readIdx = r1.idx]

\* the pane-scope primitive effect looking its pane up in chart().panes()
\* at every run instead of using seriesPane
PanePrimitivesEffectLookingUp(w, b) ==
  LET d == w.binders[b].decl
      r1 == paneIdx(w, d)
      currentPanePrimitives ==
        IF r1.idx = 0 THEN chartPrimitives(w) ELSE panePrimitives(w, d)
      scope == IF r1.idx = 0 THEN "chart" ELSE "pane"
      w1 == attachPanePrimitives(r1.w, currentPanePrimitives,
                                 PaneAt(w, r1.idx))
      w2 == PrimitivesCallback(w1, scope, "attached", d, currentPanePrimitives)
  IN [w2 EXCEPT !.binders[b].capPane = currentPanePrimitives,
                !.binders[b].capDetach = scope,
                !.binders[b].readIdx = r1.idx]

\* the pane-scope primitive effect, 300-308: its body.  What the cleanup
\* registered at 309-312 closes over is kept in the binder.
PanePrimitivesEffect(w, b) ==
  LET d == w.binders[b].decl
      r1 == paneIdx(w, d)
      r2 == paneIdx(r1.w, d)
      r3 == paneIdx(r2.w, d)
      currentPanePrimitives ==
        IF r1.idx = 0 THEN chartPrimitives(w) ELSE panePrimitives(w, d)
      attachCallback == IF r2.idx = 0 THEN "chart" ELSE "pane"
      detachCallback == IF r3.idx = 0 THEN "chart" ELSE "pane"
      w1 == attachPanePrimitives(r3.w, currentPanePrimitives,
                                 w.binders[b].seriesPane)
      w2 == PrimitivesCallback(w1, attachCallback, "attached", d,
                               currentPanePrimitives)
  IN [w2 EXCEPT !.binders[b].capPane = currentPanePrimitives,
                !.binders[b].capDetach = detachCallback,
                !.binders[b].readIdx = r1.idx]

\* a cleanup that reads the accessors again instead of using the values its
\* effect run closed over
PanePrimitivesCleanupCurrentList(w, b) ==
  LET bd == w.binders[b]
      r == paneIdx(w, bd.decl)
      current == IF r.idx = 0 THEN chartPrimitives(w)
                 ELSE panePrimitives(w, bd.decl)
      w1 == detachPanePrimitives(r.w, current, bd.seriesPane)
  IN PrimitivesCallback(w1, IF r.idx = 0 THEN "chart" ELSE "pane",
                        "detached", bd.decl, current)

\* the cleanup of the pane-scope primitive effect, 309-312
PanePrimitivesCleanup(w, b) ==
  LET bd == w.binders[b]
      w1 == detachPanePrimitives(w, bd.capPane, bd.seriesPane)
  IN PrimitivesCallback(w1, bd.capDetach, "detached", bd.decl, bd.capPane)

\* ISeriesApi.attachPrimitive / detachPrimitive as the library performs them
RECURSIVE SeriesAttachEach(_, _, _)
SeriesAttachEach(w, b, primitives) ==
  IF primitives = <<>> THEN w
  ELSE SeriesAttachEach(
         Emit([w EXCEPT !.lib[b].att = Append(@, Head(primitives))],
              Call("series.attachPrimitive", b, 0, <<Head(primitives)>>, <<>>)),
         b, Tail(primitives))

RECURSIVE SeriesDetachEach(_, _, _)
SeriesDetachEach(w, b, primitives) ==
  IF primitives = <<>> THEN w
  ELSE SeriesDetachEach(
         Emit([w EXCEPT !.lib[b].att =
                          SelectSeq(@, LAMBDA q : q # Head(primitives))],
              Call("series.detachPrimitive", b, 0, <<Head(primitives)>>, <<>>)),
         b, Tail(primitives))

\* the series-primitive effect, 315-322: its body
SeriesPrimitivesEffect(w, b) ==
  LET currentPrimitives == w.binders[b].sprims
      w1 == SeriesAttachEach(w, b, currentPrimitives)
      w2 == Emit(w1, Call("onAttachPrimitives", b, 0, currentPrimitives, <<>>))
  IN [w2 EXCEPT !.binders[b].capSeries = currentPrimitives]

\* the cleanup of the series-primitive effect, 324-330
SeriesPrimitivesCleanup(w, b) ==
  LET currentPrimitives == w.binders[b].capSeries
      w1 == SeriesDetachEach(w, b, currentPrimitives)
  IN Emit(w1, Call("onDetachPrimitives", b, 0, currentPrimitives, <<>>))

\* one effect for the data and the options: an options change sets the data
\* again
OptionsEffectWithData(w, b) ==
  Emit([DataEffect(w, b) EXCEPT !.lib[b].opts = w.binders[b].opts],
       Call("series.applyOptions", b, 0, <<>>, <<>>))

\* the options effect, 333-335
OptionsEffect(w, b) ==
  Emit([w EXCEPT !.lib[b].opts = w.binders[b].opts],
       Call("series.applyOptions", b, 0, <<>>, <<>>))

\* the onCleanup of onMount, 337-340
RemoveSeriesCleanup(w, b) ==
  LET w1 == Emit([w EXCEPT !.lib[b].state = "removed"],
                 Call("chart.removeSeries", b, 0, <<>>, <<>>))
      r == paneIdx(w1, w.binders[b].decl)
  IN Emit(r.w, Call("onRemoveSeries", b, r.idx, <<>>, <<>>))

\* onMount with the creation callback invoked after the four effects
SeriesOnMountCallbackLast(w, d, custom, data, mfn, sprims, opts) ==
  LET b == Len(w.binders) + 1
      r1 == paneIdx(w, d)
      w1 == addSeries(r1.w, b, r1.idx, custom)
      r3 == paneIdx(w1, d)
      seriesPane == PaneAt(r3.w, r3.idx)
      w3 == [r3.w EXCEPT !.binders = Append(@,
               [state |-> "mounted", decl |-> d, custom |-> custom,
                via |-> "component",
                createdIdx |-> r1.idx, seriesPane |-> seriesPane,
                data |-> data, mfn |-> mfn, sprims |-> sprims, opts |-> opts,
                capPane |-> <<>>, capDetach |-> "chart", capSeries |-> <<>>,
                readIdx |-> r3.idx])]
      w4 == OptionsEffect(SeriesPrimitivesEffect(
              PanePrimitivesEffect(DataEffect(w3, b), b), b), b)
  IN Emit(w4, Call("onCreateSeries", b, r3.idx, <<>>, <<>>))

\* onMount, 281-341: the series is created, then the four effects run in
\* the order of their creation
SeriesOnMount(w, d, custom, data, mfn, sprims, opts) ==
  LET b == Len(w.binders) + 1
      r1 == paneIdx(w, d)
      w1 == addSeries(r1.w, b, r1.idx, custom)
      r2 == paneIdx(w1, d)
      w2 == Emit(r2.w, Call("onCreateSeries", b, r2.idx, <<>>, <<>>))
      r3 == paneIdx(w2, d)
      seriesPane == PaneAt(r3.w, r3.idx)
      w3 == [r3.w EXCEPT !.binders = Append(@,
               [state |-> "mounted", decl |-> d, custom |-> custom,
                via |-> "component",
                createdIdx |-> r1.idx, seriesPane |-> seriesPane,
                data |-> data, mfn |-> mfn, sprims |-> sprims, opts |-> opts,
                capPane |-> <<>>, capDetach |-> "chart", capSeries |-> <<>>,
                readIdx |-> r3.idx])]
  IN OptionsEffect(SeriesPrimitivesEffect(
       PanePrimitivesEffect(DataEffect(w3, b), b), b), b)

\* onMount with the exception of the creation callback caught: the rest of
\* onMount runs
SeriesOnMountCatching(w, d, custom, data, mfn, sprims, opts) ==
  SeriesOnMount(w, d, custom, data, mfn, sprims, opts)

\* onMount, 281-341, with an onCreateSeries that throws: the series is
\* created (282-286), the callback is called (287) and the exception leaves
\* onMount; the lines 289-340 do not run, no effect is created and no
\* cleanup is registered
SeriesOnMountThrowing(w, d, custom, data, mfn, sprims, opts) ==
  LET b == Len(w.binders) + 1
      r1 == paneIdx(w, d)
      w1 == addSeries(r1.w, b, r1.idx, custom)
      r2 == paneIdx(w1, d)
      w2 == Emit(r2.w, Call("onCreateSeries", b, r2.idx, <<>>, <<"throws">>))
  IN [w2 EXCEPT !.binders = Append(@,
        [state |-> "failed", decl |-> d, custom |-> custom,
         via |-> "component",
         createdIdx |-> r1.idx, seriesPane |-> NoPane,
         data |-> data, mfn |-> mfn, sprims |-> sprims, opts |-> opts,
         capPane |-> <<>>, capDetach |-> "chart", capSeries |-> <<>>,
         readIdx |-> r2.idx])]

\* a disposed binder: its inputs and closures are no longer reachable
Disposed(bd) ==
  [bd EXCEPT !.state = "unmounted", !.data = <<>>, !.mfn = "default",
             !.sprims = <<>>, !.opts = "none", !.capPane = <<>>,
             !.capDetach = "chart", !.capSeries = <<>>]

\* a disposal that runs the onCleanup of onMount only
DisposeSeriesOnly(w, b) ==
  [RemoveSeriesCleanup(w, b) EXCEPT !.binders[b] = Disposed(@)]

\* a disposal that runs the onCleanup of onMount before the cleanups of the
\* effects
DisposeSeriesRemoveFirst(w, b) ==
  LET w1 == PanePrimitivesCleanup(SeriesPrimitivesCleanup(
              RemoveSeriesCleanup(w, b), b), b)
  IN [w1 EXCEPT !.binders[b] = Disposed(@)]

\* the disposal of a binder: its effects' cleanups in reverse order of
\* creation, then the onCleanup of onMount
DisposeSeries(w, b) ==
  LET w1 == RemoveSeriesCleanup(
              PanePrimitivesCleanup(SeriesPrimitivesCleanup(w, b), b), b)
  IN [w1 EXCEPT !.binders[b] = Disposed(@)]

----------------------------------------------------------------------------
(* The inline CustomSeries binder, TimeChart.tsx 364-454, and the shared    *)
(* helper createCustomSeries, helpers/utils.ts 150-243.  The helper's       *)
(* caller passes it the accessors and callbacks of the chart context and    *)
(* of the PaneContext (utils.ts 120-146), which the inline binders read     *)
(* themselves.                                                              *)

\* CustomSeries onMount, 395-451
CustomSeriesOnMount(w, d, data, mfn, sprims, opts) ==
  LET b == Len(w.binders) + 1
      r1 == paneIdx(w, d)
      w1 == addSeries(r1.w, b, r1.idx, TRUE)
      r2 == paneIdx(w1, d)
      w2 == Emit(r2.w, Call("onCreateSeries", b, r2.idx, <<>>, <<>>))
      r3 == paneIdx(w2, d)
      seriesPane == PaneAt(r3.w, r3.idx)
      w3 == [r3.w EXCEPT !.binders = Append(@,
               [state |-> "mounted", decl |-> d, custom |-> TRUE,
                via |-> "component",
                createdIdx |-> r1.idx, seriesPane |-> seriesPane,
                data |-> data, mfn |-> mfn, sprims |-> sprims, opts |-> opts,
                capPane |-> <<>>, capDetach |-> "chart", capSeries |-> <<>>,
                readIdx |-> r3.idx])]
      \* 401-408
      w4 == DataEffect(w3, b)
      \* 410-423
      w5 == PanePrimitivesEffect(w4, b)
      \* 425-441
      w6 == SeriesPrimitivesEffect(w5, b)
  \* 443-445
  IN OptionsEffect(w6, b)

\* createCustomSeries: the data effect, utils.ts 192-199
createCustomSeriesDataEffect(w, b) ==
  LET bd == w.binders[b]
      w1 == Emit([w EXCEPT !.lib[b].data = bd.data],
                 Call("series.setData", b, 0, <<>>, bd.data))
      w2 == Emit(w1, Call("onSetData", b, 0, <<>>, bd.data))
      w3 == Emit(w2, Call("markers", b, 0, <<>>, bd.data))
      dataMarkers == ApplyMarkers(bd.mfn, bd.data)
      w4 == Emit([w3 EXCEPT !.lib[b].plugins = Append(@, dataMarkers)],
                 Call("createSeriesMarkers", b, 0, <<>>, dataMarkers))
  IN Emit(w4, Call("onSetMarkers", b, 0, <<>>, dataMarkers))

\* createCustomSeries: the pane-scope primitive effect, utils.ts 201-208
createCustomSeriesPaneEffect(w, b) ==
  LET d == w.binders[b].decl
      seriesPane == w.binders[b].seriesPane
      first == paneIdx(w, d).idx
      currentPanePrimitives ==
        IF first = 0 THEN chartPrimitives(w) ELSE panePrimitives(w, d)
      attachCallback == IF paneIdx(w, d).idx = 0 THEN "chart" ELSE "pane"
      detachCallback == IF paneIdx(w, d).idx = 0 THEN "chart" ELSE "pane"
      w1 == attachPanePrimitives(w, currentPanePrimitives, seriesPane)
      w2 == PrimitivesCallback(w1, attachCallback, "attached", d,
                               currentPanePrimitives)
  IN [w2 EXCEPT !.binders[b].capPane = currentPanePrimitives,
                !.binders[b].capDetach = detachCallback,
                !.binders[b].readIdx = first]

\* its cleanup, utils.ts 210-213
createCustomSeriesPaneCleanup(w, b) ==
  LET bd == w.binders[b]
  IN PrimitivesCallback(detachPanePrimitives(w, bd.capPane, bd.seriesPane),
                        bd.capDetach, "detached", bd.decl, bd.capPane)

\* createCustomSeries: the series-primitive effect, utils.ts 216-223
createCustomSeriesPrimitivesEffect(w, b) ==
  LET currentPrimitives == w.binders[b].sprims
      w1 == SeriesAttachEach(w, b, currentPrimitives)
      w2 == Emit(w1, Call("onAttachPrimitives", b, 0, currentPrimitives, <<>>))
  IN [w2 EXCEPT !.binders[b].capSeries = currentPrimitives]

\* its cleanup, utils.ts 225-231
createCustomSeriesPrimitivesCleanup(w, b) ==
  LET currentPrimitives == w.binders[b].capSeries
  IN Emit(SeriesDetachEach(w, b, currentPrimitives),
          Call("onDetachPrimitives", b, 0, currentPrimitives, <<>>))

\* createCustomSeries: the options effect, utils.ts 234-236
createCustomSeriesOptionsEffect(w, b) ==
  Emit([w EXCEPT !.lib[b].opts = w.binders[b].opts],
       Call("series.applyOptions", b, 0, <<>>, <<>>))

\* createCustomSeries: the onCleanup of onMount, utils.ts 238-241
createCustomSeriesRemove(w, b) ==
  LET w1 == Emit([w EXCEPT !.lib[b].state = "removed"],
                 Call("chart.removeSeries", b, 0, <<>>, <<>>))
  IN Emit(w1, Call("onRemoveSeries", b, paneIdx(w1, w.binders[b].decl).idx,
                   <<>>, <<>>))

\* a helper that applies the options before it sets the data
createCustomSeriesOptionsFirst(w, d, data, mfn, sprims, opts) ==
  LET b == Len(w.binders) + 1
      idx == paneIdx(w, d).idx
      w1 == addSeries(w, b, idx, TRUE)
      w2 == Emit(w1, Call("onCreateSeries", b, idx, <<>>, <<>>))
      w3 == [w2 EXCEPT !.binders = Append(@,
               [state |-> "mounted", decl |-> d, custom |-> TRUE,
                via |-> "helper",
                createdIdx |-> idx, seriesPane |-> PaneAt(w2, idx),
                data |-> data, mfn |-> mfn, sprims |-> sprims, opts |-> opts,
                capPane |-> <<>>, capDetach |-> "chart", capSeries |-> <<>>,
                readIdx |-> idx])]
  IN createCustomSeriesPrimitivesEffect(
       createCustomSeriesPaneEffect(
         createCustomSeriesDataEffect(
           createCustomSeriesOptionsEffect(w3, b), b), b), b)

\* createCustomSeries: onMount, utils.ts 186-242
createCustomSeries(w, d, data, mfn, sprims, opts) ==
  LET b == Len(w.binders) + 1
      w1 == addSeries(w, b, paneIdx(w, d).idx, TRUE)
      w2 == Emit(w1, Call("onCreateSeries", b, paneIdx(w1, d).idx, <<>>, <<>>))
      seriesPane == PaneAt(w2, paneIdx(w2, d).idx)
      w3 == [w2 EXCEPT !.binders = Append(@,
               [state |-> "mounted", decl |-> d, custom |-> TRUE,
                via |-> "helper",
                createdIdx |-> paneIdx(w, d).idx, seriesPane |-> seriesPane,
                data |-> data, mfn |-> mfn, sprims |-> sprims, opts |-> opts,
                capPane |-> <<>>, capDetach |-> "chart", capSeries |-> <<>>,
                readIdx |-> paneIdx(w2, d).idx])]
  IN createCustomSeriesOptionsEffect(
       createCustomSeriesPrimitivesEffect(
         createCustomSeriesPaneEffect(
           createCustomSeriesDataEffect(w3, b), b), b), b)

\* the disposal of a binder made by the helper
createCustomSeriesDispose(w, b) ==
  LET w1 == createCustomSeriesRemove(
              createCustomSeriesPaneCleanup(
                createCustomSeriesPrimitivesCleanup(w, b), b), b)
  IN [w1 EXCEPT !.binders[b] = Disposed(@)]

\* the effects and the disposal of the binder b, by the code that made it
ByHelper(w, b) == w.binders[b].via = "helper"
RunDataEffect(w, b) ==
  IF ByHelper(w, b) THEN createCustomSeriesDataEffect(w, b)
  ELSE DataEffect(w, b)
RunOptionsEffect(w, b) ==
  IF ByHelper(w, b) THEN createCustomSeriesOptionsEffect(w, b)
  ELSE OptionsEffect(w, b)
RunDispose(w, b) ==
  IF ByHelper(w, b) THEN createCustomSeriesDispose(w, b)
  ELSE DisposeSeries(w, b)

----------------------------------------------------------------------------
(* The Chart Host: TimeChart.tsx 85-190 *)

Kinds == <<"Click", "DblClick", "CrosshairMove">>

\* an onClick / onDblClick / onCrosshairMove input: not given, one handler,
\* or a list of handlers
NoHandler == [kind |-> "none", hs |-> <<>>]
OneHandler(h) == [kind |-> "single", hs |-> <<h>>]
HandlerList(hs) == [kind |-> "list", hs |-> hs]

\* mergeProps' default: autoSize is true unless given
autoSize(h) == IF h.autoSize = "absent" THEN TRUE ELSE h.autoSize = "true"

\* chart[subscribe](handler) / chart[unsubscribe](handler) as the library
\* performs them: one listener more, the first such listener less
RemoveFirst(s, x) ==
  IF \E i \in 1..Len(s) : s[i] = x
  THEN LET k == CHOOSE i \in 1..Len(s) :
                  s[i] = x /\ \A j \in 1..(i - 1) : s[j] # x
       IN [i \in 1..(Len(s) - 1) |-> IF i < k THEN s[i] ELSE s[i + 1]]
  ELSE s

RECURSIVE SubscribeEach(_, _, _)
SubscribeEach(w, k, hs) ==
  IF hs = <<>> THEN w
  ELSE SubscribeEach(
         Emit([w EXCEPT !.subs[k] = Append(@, Head(hs))],
              Call("chart.subscribe", k, 0, <<Head(hs)>>, <<>>)),
         k, Tail(hs))

RECURSIVE UnsubscribeEach(_, _, _)
UnsubscribeEach(w, k, hs) ==
  IF hs = <<>> THEN w
  ELSE UnsubscribeEach(
         Emit([w EXCEPT !.subs[k] = RemoveFirst(@, Head(hs))],
              Call("chart.unsubscribe", k, 0, <<Head(hs)>>, <<>>)),
         k, Tail(hs))

\* createSubscriptionEffect, helpers/utils.ts 40-67: the effect's body over
\* the eventHandlers argument, which is the value the input had at the call
createSubscriptionEffect(w, k, eventHandlers) ==
  IF eventHandlers.kind = "none" THEN w
  ELSE [SubscribeEach(w, k, eventHandlers.hs)
          EXCEPT !.host.cap[k] = eventHandlers]

\* the onCleanup registered by that body, 57-65
SubscriptionCleanup(w, k) ==
  UnsubscribeEach(w, k, w.host.cap[k].hs)

\* the resize effect without the autoSize test of line 136
ResizeEffectAlways(w) ==
  LET h == w.host IN
  Emit(Emit([w EXCEPT !.host.resizeReadsSize = TRUE],
            Call("chart.resize", 0, 0, <<>>, <<h.width, h.height, h.force>>)),
       Call("onResize", 0, 0, <<>>, <<h.width, h.height>>))

\* the resize effect with resize(width, height) only
ResizeEffectNoRepaintFlag(w) ==
  IF autoSize(w.host) THEN [w EXCEPT !.host.resizeReadsSize = FALSE]
  ELSE LET h == w.host IN
       Emit(Emit([w EXCEPT !.host.resizeReadsSize = TRUE],
                 Call("chart.resize", 0, 0, <<>>, <<h.width, h.height, FALSE>>)),
            Call("onResize", 0, 0, <<>>, <<h.width, h.height>>))

\* the resize effect, 135-140
ResizeEffect(w) ==
  IF autoSize(w.host) THEN [w EXCEPT !.host.resizeReadsSize = FALSE]
  ELSE LET h == w.host IN
       Emit(Emit([w EXCEPT !.host.resizeReadsSize = TRUE],
                 Call("chart.resize", 0, 0, <<>>,
                      <<h.width, h.height, h.force>>)),
            Call("onResize", 0, 0, <<>>, <<h.width, h.height>>))

\* the options effect, 150-152
ApplyOptionsEffect(w) == Emit(w, Call("chart.applyOptions", 0, 0, <<>>, <<>>))

\* onMount without lines 128-129: the pane counter is left as it was
HostOnMountCounterUnset(w, props) ==
  LET w1 == Emit(Emit([w EXCEPT
                !.host = [status |-> "mounted", variant |-> props.variant,
                          autoSize |-> props.autoSize,
                          width |-> props.width, height |-> props.height,
                          force |-> props.force, prims |-> props.prims,
                          handlers |-> props.handlers,
                          cap |-> [k \in 1..3 |-> NoHandler],
                          resizeReadsSize |-> FALSE],
                !.chart = [status |-> "live",
                           nextPaneIndex |-> w.chart.nextPaneIndex,
                           numPanes |-> 1]],
              Call("createChart", 0, 0, <<>>, <<>>)),
            Call("onCreateChart", 0, 0, <<>>, <<>>))
      w2 == ResizeEffect(w1)
      w3 == createSubscriptionEffect(w2, 1, props.handlers[1])
      w4 == createSubscriptionEffect(w3, 2, props.handlers[2])
      w5 == createSubscriptionEffect(w4, 3, props.handlers[3])
  IN ApplyOptionsEffect(w5)

\* onMount, 124-157
HostOnMount(w, props) ==
  LET w1 == Emit(Emit([w EXCEPT
                !.host = [status |-> "mounted", variant |-> props.variant,
                          autoSize |-> props.autoSize,
                          width |-> props.width, height |-> props.height,
                          force |-> props.force, prims |-> props.prims,
                          handlers |-> props.handlers,
                          cap |-> [k \in 1..3 |-> NoHandler],
                          resizeReadsSize |-> FALSE],
                !.chart = [status |-> "live", nextPaneIndex |-> 1,
                           numPanes |-> 1]],
              Call("createChart", 0, 0, <<>>, <<>>)),
            Call("onCreateChart", 0, 0, <<>>, <<>>))
      w2 == ResizeEffect(w1)
      w3 == createSubscriptionEffect(w2, 1, props.handlers[1])
      w4 == createSubscriptionEffect(w3, 2, props.handlers[2])
      w5 == createSubscriptionEffect(w4, 3, props.handlers[3])
  IN ApplyOptionsEffect(w5)

\* a disposal that runs the onCleanup at 154-156 only
HostDisposeOnly(w) ==
  Emit([w EXCEPT !.chart.status = "removed", !.host.status = "disposed"],
       Call("chart.remove", 0, 0, <<>>, <<>>))

\* a disposal that runs the onCleanup at 154-156 before the cleanups of the
\* subscription effects
HostDisposeRemoveFirst(w) ==
  LET w1 == Emit([w EXCEPT !.chart.status = "removed",
                           !.host.status = "disposed"],
                 Call("chart.remove", 0, 0, <<>>, <<>>))
  IN SubscriptionCleanup(SubscriptionCleanup(SubscriptionCleanup(w1, 3), 2), 1)

\* the disposal of onMount's owner: the subscription effects' cleanups in
\* reverse order of creation, then the onCleanup at 154-156
HostDispose(w) ==
  LET w1 == SubscriptionCleanup(SubscriptionCleanup(
              SubscriptionCleanup(w, 3), 2), 1)
  IN Emit([w1 EXCEPT !.chart.status = "removed",
                     !.host.status = "disposed"],
          Call("chart.remove", 0, 0, <<>>, <<>>))

----------------------------------------------------------------------------
(* The Tooltip: helpers/createTooltip.tsx *)

Undefined == [t |-> "undefined", n |-> 0, s |-> ""]
Num(n) == [t |-> "number", n |-> n, s |-> ""]
Str(s) == [t |-> "string", n |-> 0, s |-> s]
BusinessDay(n) == [t |-> "object", n |-> n, s |-> ""]

\* JavaScript's truthiness of a horizontal-axis value, as !param.time reads it
Truthy(v) ==
  CASE v.t = "undefined" -> FALSE
    [] v.t = "number" -> v.n # 0
    [] v.t = "string" -> v.s # ""
    [] OTHER -> TRUE

NoPoint == [def |-> FALSE, x |-> 0, y |-> 0]
Point(x, y) == [def |-> TRUE, x |-> x, y |-> y]

\* container.clientWidth / clientHeight of chart().chartElement()
ContainerWidth == 800
ContainerHeight == 400

\* the initial value of the tooltipProps signal, 59-64
InitialTooltipProps ==
  [seriesData |-> "none", point |-> Point(-1, -1), time |-> Undefined]

\* an optional number of the offset input
Absent == [def |-> FALSE, n |-> 0]
Some(n) == [def |-> TRUE, n |-> n]

DefaultOffset == 8     \* mergeProps: offset: { x: 8, y: 8 }
FallbackOffset == 10   \* _props.offset.x ?? 10

\* the inputs of createTooltip that its rendering reads: offset (the whole
\* object may be absent, and so may each of its components), fixed,
\* onPositionCalculated ("none" when not given) and the content, given as
\* children function, as component, or not at all
NoOffset == [given |-> FALSE, x |-> Absent, y |-> Absent]
Offset(x, y) == [given |-> TRUE, x |-> x, y |-> y]
TooltipInputs(offset, fixed, hook, content) ==
  [offset |-> offset, fixed |-> fixed, hook |-> hook, content |-> content]
DefaultTooltipInputs == TooltipInputs(NoOffset, FALSE, "none", "none")

\* chart().chartElement().getBoundingClientRect() when nothing is known of it
OriginRect == [left |-> 0, top |-> 0]

\* mergeProps, 43-52: a given offset object replaces the default one whole
MergedOffset(cfg) ==
  IF cfg.offset.given THEN cfg.offset
  ELSE Offset(Some(DefaultOffset), Some(DefaultOffset))

\* _props.onPositionCalculated?.({ left, top }) ?? { left, top }, with the
\* user's hook one that moves the position
ApplyHook(hook, pos) ==
  IF hook = "shift" THEN [left |-> pos.left + 1, top |-> pos.top + 1] ELSE pos

\* the unadjusted position, 100-108
UnadjustedPosition(tp) ==
  LET offset == MergedOffset(tp.cfg)
      left == (IF tp.props.point.def THEN tp.props.point.x ELSE 0)
              + (IF offset.x.def THEN offset.x.n ELSE FallbackOffset)
      top == (IF tp.props.point.def THEN tp.props.point.y ELSE 0)
             + (IF offset.y.def THEN offset.y.n ELSE FallbackOffset)
  IN [left |-> IF tp.cfg.fixed THEN left + tp.rect.left ELSE left,
      top |-> IF tp.cfg.fixed THEN top + tp.rect.top ELSE top]

\* a run of the memo tooltipPosition, 99-111: it runs when TooltipRoot is
\* rendered and again whenever tooltipProps or an input it read changes
tooltipPosition(w) ==
  LET pos == UnadjustedPosition(w.tip)
      w1 == IF w.tip.cfg.hook = "none" THEN w
            ELSE Emit(w, Call("onPositionCalculated", 0, 0, <<>>,
                              <<pos.left, pos.top>>))
  IN [w1 EXCEPT !.tip.pos = ApplyHook(w.tip.cfg.hook, pos)]

\* the content expression under <Show when={visible()}>, 129-134: the
\* children function is called with tooltipProps(), or the component is
\* given tooltipProps() to read
RenderContent(w) ==
  IF ~w.tip.visible \/ w.tip.cfg.content = "none" THEN w
  ELSE Emit(w, Call(w.tip.cfg.content, 0, 0, <<>>, <<w.tip.props>>))

\* onCrosshairMove without the test of line 75
onCrosshairMoveNoBottom(w, param) ==
  LET outOfBounds ==
        \/ ~param.point.def
        \/ ~Truthy(param.time)
        \/ param.point.x < 0
        \/ param.point.y < 0
        \/ param.point.x > ContainerWidth
  IN IF outOfBounds
     THEN Emit([w EXCEPT !.tip.visible = FALSE],
               Call("onHide", 0, 0, <<>>, <<>>))
     ELSE Emit([w EXCEPT !.tip.visible = TRUE,
                         !.tip.props = [seriesData |-> param.seriesData,
                                        point |-> param.point,
                                        time |-> param.time]],
               Call("onShow", 0, 0, <<>>, <<>>))

\* onCrosshairMove without batch: what depends on visible runs before
\* tooltipProps is written
onCrosshairMoveUnbatched(w, param) ==
  LET outOfBounds ==
        \/ ~param.point.def
        \/ ~Truthy(param.time)
        \/ param.point.x < 0
        \/ param.point.y < 0
        \/ param.point.x > ContainerWidth
        \/ param.point.y > ContainerHeight
  IN IF outOfBounds
     THEN Emit([w EXCEPT !.tip.visible = FALSE],
               Call("onHide", 0, 0, <<>>, <<>>))
     ELSE LET w1 == IF w.tip.visible THEN w
                    ELSE RenderContent([w EXCEPT !.tip.visible = TRUE])
              w2 == [w1 EXCEPT !.tip.props = [seriesData |-> param.seriesData,
                                              point |-> param.point,
                                              time |-> param.time]]
          IN Emit(RenderContent(tooltipPosition(w2)),
                  Call("onShow", 0, 0, <<>>, <<>>))

\* onCrosshairMove, 66-96
onCrosshairMove(w, param) ==
  LET outOfBounds ==
        \/ ~param.point.def
        \/ ~Truthy(param.time)
        \/ param.point.x < 0
        \/ param.point.y < 0
        \/ param.point.x > ContainerWidth
        \/ param.point.y > ContainerHeight
  IN IF outOfBounds
     THEN Emit([w EXCEPT !.tip.visible = FALSE],
               Call("onHide", 0, 0, <<>>, <<>>))
     ELSE Emit(RenderContent(tooltipPosition(
                 [w EXCEPT !.tip.visible = TRUE,
                           !.tip.props = [seriesData |-> param.seriesData,
                                          point |-> param.point,
                                          time |-> param.time]])),
               Call("onShow", 0, 0, <<>>, <<>>))

\* createTooltip with createSignal(true) for visible
TooltipOnMountVisible(w) ==
  RenderContent(tooltipPosition(
    Emit([w EXCEPT !.tip.status = "mounted", !.tip.visible = TRUE,
                   !.tip.props = InitialTooltipProps,
                   !.subs[3] = Append(@, "tooltip")],
         Call("chart.subscribe", 3, 0, <<"tooltip">>, <<>>))))

\* createTooltip's signals and its onMount, 56-64 and 139-142
TooltipOnMount(w) ==
  tooltipPosition(
    Emit([w EXCEPT !.tip.status = "mounted", !.tip.visible = FALSE,
                   !.tip.props = InitialTooltipProps,
                   !.subs[3] = Append(@, "tooltip")],
         Call("chart.subscribe", 3, 0, <<"tooltip">>, <<>>)))

\* no Tooltip: before one is mounted, and after its teardown
NoTooltip ==
  [status |-> "none", visible |-> FALSE, props |-> InitialTooltipProps,
   cfg |-> DefaultTooltipInputs, rect |-> OriginRect,
   pos |-> [left |-> 0, top |-> 0]]

\* a teardown that leaves the handler subscribed
TooltipDisposeKeepSubscription(w) == [w EXCEPT !.tip = NoTooltip]

\* the onCleanup of the tooltip, 143-147; its signals go with it
TooltipDispose(w) ==
  Emit([w EXCEPT !.tip = NoTooltip,
                 !.subs[3] = RemoveFirst(@, "tooltip")],
       Call("chart.unsubscribe", 3, 0, <<"tooltip">>, <<>>))

----------------------------------------------------------------------------
(* The steps *)

Mounted(w, b) == w.binders[b].state = "mounted"

\* an effect re-run by the runtime: its cleanup, then its body
RerunPanePrimitivesEffect(w, b) ==
  PanePrimitivesEffect(PanePrimitivesCleanup(w, b), b)

\* a re-run that runs the body without the cleanup of the previous run
RerunSeriesPrimitivesEffectNoCleanup(w, b) == SeriesPrimitivesEffect(w, b)

RerunSeriesPrimitivesEffect(w, b) ==
  SeriesPrimitivesEffect(SeriesPrimitivesCleanup(w, b), b)

\* the re-runs of the effects of a binder, by the code that made it
RunPanePrimitivesEffect(w, b) ==
  IF ByHelper(w, b)
  THEN createCustomSeriesPaneEffect(createCustomSeriesPaneCleanup(w, b), b)
  ELSE RerunPanePrimitivesEffect(w, b)
RunSeriesPrimitivesEffect(w, b) ==
  IF ByHelper(w, b)
  THEN createCustomSeriesPrimitivesEffect(
         createCustomSeriesPrimitivesCleanup(w, b), b)
  ELSE RerunSeriesPrimitivesEffect(w, b)

\* the pane-scope effects of the binders in `readers`, which read the
\* written input, re-run in the order of their binders
RECURSIVE RerunFrom(_, _, _)
RerunFrom(w, b, readers) ==
  IF b > Len(w.binders) THEN w
  ELSE RerunFrom(IF Mounted(w, b) /\ b \in readers
                 THEN RunPanePrimitivesEffect(w, b) ELSE w,
                 b + 1, readers)

\* the binders b, b-1, ..., 1 that are mounted and in scope are disposed
RECURSIVE DisposeFrom(_, _, _)
DisposeFrom(w, b, scope) ==
  IF b = 0 THEN w
  ELSE DisposeFrom(IF Mounted(w, b) /\ b \in scope
                   THEN RunDispose(w, b) ELSE w,
                   b - 1, scope)

HostProps(variant, as, width, height, force, prims, handlers) ==
  [variant |-> variant, autoSize |-> as, width |-> width, height |-> height,
   force |-> force, prims |-> prims, handlers |-> handlers]

\* the Chart Host is mounted
MountChart(props) ==
  /\ host.status = "unmounted"
  /\ Commit(HostOnMount(World, props), Step("MountChart", 0, 0))

\* a Pane declaration is activated inside the chart: its memo is computed
MountPane(index, prims) ==
  /\ chart.status = "live"
  /\ Len(panes) < MaxPanes
  /\ LET r == ResolvePaneIdx(World, index)
     IN Commit([r.w EXCEPT !.panes = Append(@,
                  [alive |-> TRUE, index |-> index, memo |-> r.idx,
                   prims |-> prims])],
               Step("MountPane", Len(panes) + 1, 0))

\* a Series or CustomSeries is activated, directly under the chart (d = 0)
\* or inside the Pane declaration d
MountSeries(d, custom, data, mfn, sprims, opts) ==
  /\ chart.status = "live"
  /\ Len(binders) < MaxSeries
  /\ d = 0 \/ (d \in 1..Len(panes) /\ panes[d].alive)
  /\ Commit(SeriesOnMount(World, d, custom, data, mfn, sprims, opts),
            Step("MountSeries", d, Len(binders) + 1))

\* a CustomSeries is activated, written inline in the chart variant
\* ("component") or calling the helper ("helper")
MountCustomSeries(d, via, data, mfn, sprims, opts) ==
  /\ chart.status = "live"
  /\ Len(binders) < MaxSeries
  /\ d = 0 \/ (d \in 1..Len(panes) /\ panes[d].alive)
  /\ Commit(IF via = "helper"
            THEN createCustomSeries(World, d, data, mfn, sprims, opts)
            ELSE CustomSeriesOnMount(World, d, data, mfn, sprims, opts),
            Step("MountSeries", d, Len(binders) + 1))

\* the width, height or forceRepaintOnResize input of the Chart Host is
\* changed: the resize effect re-runs if its last run read them
SetSize(width, height, force) ==
  /\ host.status = "mounted"
  /\ <<width, height, force>> # <<host.width, host.height, host.force>>
  /\ LET w == [World EXCEPT !.host.width = width, !.host.height = height,
                            !.host.force = force]
     IN Commit(IF host.resizeReadsSize THEN ResizeEffect(w) ELSE w,
               Step("SetSize", 0, 0))

\* a change of autoSize that re-runs the options effect only
SetAutoSizeOptionsOnly(as) ==
  /\ host.status = "mounted"
  /\ as # host.autoSize
  /\ Commit(ApplyOptionsEffect([World EXCEPT !.host.autoSize = as]),
            Step("SetAutoSize", 0, 0))

\* the autoSize input of the Chart Host is changed: the resize effect and
\* the options effect read it, and re-run in the order of their creation
SetAutoSize(as) ==
  /\ host.status = "mounted"
  /\ as # host.autoSize
  /\ Commit(ApplyOptionsEffect(ResizeEffect([World EXCEPT !.host.autoSize = as])),
            Step("SetAutoSize", 0, 0))

\* a change of the Chart Host's list that re-runs the pane-scope effect of
\* every mounted binder, whatever list it read
SetChartPrimitivesAllBinders(new) ==
  /\ host.status = "mounted"
  /\ LET w == [World EXCEPT !.host.prims = new]
     IN Commit(RerunFrom(w, 1, 1..Len(binders)),
               Step("SetChartPrimitives", 0, 0))

\* the Chart Host's primitives input is replaced
SetChartPrimitives(new) ==
  /\ host.status = "mounted"
  /\ LET w == [World EXCEPT !.host.prims = new]
     IN Commit(RerunFrom(w, 1, { b \in 1..Len(binders) :
                                      binders[b].readIdx = 0 }),
               Step("SetChartPrimitives", 0, 0))

\* the primitives input of the Pane declaration d is replaced
SetPanePrimitives(d, new) ==
  /\ d \in 1..Len(panes)
  /\ panes[d].alive
  /\ LET w == [World EXCEPT !.panes[d].prims = new]
     IN Commit(RerunFrom(w, 1, { b \in 1..Len(binders) :
                                      /\ binders[b].decl = d
                                      /\ binders[b].readIdx # 0 }),
               Step("SetPanePrimitives", d, 0))

\* the primitives input of the series binder b is replaced
SetSeriesPrimitives(b, new) ==
  /\ b \in 1..Len(binders)
  /\ binders[b].state = "mounted"
  /\ Commit(RunSeriesPrimitivesEffect(
              [World EXCEPT !.binders[b].sprims = new], b),
            Step("SetSeriesPrimitives", binders[b].decl, b))

\* the data or the markers input of the series binder b is replaced
SetData(b, data, mfn) ==
  /\ b \in 1..Len(binders)
  /\ binders[b].state = "mounted"
  /\ <<data, mfn>> # <<binders[b].data, binders[b].mfn>>
  /\ Len(lib[b].plugins) <= MaxDataRuns
  /\ Commit(RunDataEffect([World EXCEPT !.binders[b].data = data,
                                        !.binders[b].mfn = mfn], b),
            Step("SetData", binders[b].decl, b))

\* a style option of the series binder b is changed
SetOptions(b, opts) ==
  /\ b \in 1..Len(binders)
  /\ binders[b].state = "mounted"
  /\ opts # binders[b].opts
  /\ Commit(RunOptionsEffect([World EXCEPT !.binders[b].opts = opts], b),
            Step("SetOptions", binders[b].decl, b))

\* the series binder b is unmounted
UnmountSeries(b) ==
  /\ b \in 1..Len(binders)
  /\ binders[b].state = "mounted"
  /\ Commit(RunDispose(World, b),
            Step("UnmountSeries", binders[b].decl, b))

\* the Pane declaration d is unmounted, and the binders inside it with it
UnmountPane(d) ==
  /\ d \in 1..Len(panes)
  /\ panes[d].alive
  /\ LET w == DisposeFrom(World, Len(binders),
                          { b \in 1..Len(binders) : binders[b].decl = d })
     IN Commit([w EXCEPT !.panes[d].alive = FALSE, !.panes[d].prims = <<>>],
               Step("UnmountPane", d, 0))

\* a Tooltip is activated inside the chart
MountTooltip ==
  /\ chart.status = "live"
  /\ tip.status = "none"
  /\ Commit(TooltipOnMount(World), Step("MountTooltip", 0, 0))

\* the Tooltip is unmounted
UnmountTooltip ==
  /\ tip.status = "mounted"
  /\ Commit(TooltipDispose(World), Step("UnmountTooltip", 0, 0))

\* the Chart Host is unmounted: what it rendered is disposed first, last
\* declared first, then the owner of onMount
UnmountChart ==
  /\ host.status = "mounted"
  /\ LET w1 == IF tip.status = "mounted" THEN TooltipDispose(World) ELSE World
         w2 == DisposeFrom(w1, Len(binders), 1..Len(binders))
         w3 == [w2 EXCEPT !.panes = [d \in 1..Len(panes) |->
                                       [panes[d] EXCEPT !.alive = FALSE,
                                                        !.prims = <<>>]]]
     IN Commit(HostDispose(w3), Step("UnmountChart", 0, 0))

\* the chart delivers a crosshair-move event to the tooltip's handler
CrosshairMove(param) ==
  /\ tip.status = "mounted"
  /\ Commit(onCrosshairMove(World, param),
            [Step("CrosshairMove", 0, 0) EXCEPT !.arg = <<param>>])

----------------------------------------------------------------------------
(* The chart, its panes, its series and their primitives *)

Init ==
  /\ host = [status |-> "unmounted", variant |-> "TimeChart",
             autoSize |-> "absent", width |-> 0,
             height |-> 0, force |-> FALSE, prims |-> <<>>,
             handlers |-> [k \in 1..3 |-> NoHandler],
             cap |-> [k \in 1..3 |-> NoHandler], resizeReadsSize |-> FALSE]
  /\ chart = [status |-> "none", nextPaneIndex |-> 0, numPanes |-> 0]
  /\ subs = [k \in 1..3 |-> <<>>]
  /\ panes = <<>>
  /\ binders = <<>>
  /\ lib = <<>>
  /\ paneAtt = [i \in 0..MaxSeries |-> <<>>]
  /\ tip = NoTooltip
  /\ calls = <<>>
  /\ last = Step("Init", 0, 0)

PanePrimLists == { l \in ListsOver(PanePrims) : l # <<>> => l[1] = "p1" }
SeriesPrimLists == { l \in ListsOver(SeriesPrims) : l # <<>> => l[1] = "s1" }
PaneIndexInputs == {NoIndex, 0, 1}
Handlers == <<OneHandler("h1"), NoHandler, HandlerList(<<"h1", "h2">>)>>

Next ==
  \/ \E prims \in PanePrimLists :
       MountChart(HostProps("TimeChart", "absent", 0, 0, FALSE, prims, Handlers))
  \/ \E index \in PaneIndexInputs, prims \in PanePrimLists :
       MountPane(index, prims)
  \/ \E d \in 0..MaxPanes : MountSeries(d, FALSE, <<1>>, "default", <<"s1">>, "o1")
  \/ \E new \in PanePrimLists : SetChartPrimitives(new)
  \/ \E d \in 1..MaxPanes, new \in PanePrimLists : SetPanePrimitives(d, new)
  \/ \E b \in 1..MaxSeries : UnmountSeries(b)
  \/ \E d \in 1..MaxPanes : UnmountPane(d)
  \/ MountTooltip
  \/ UnmountTooltip
  \/ UnmountChart

Spec == Init /\ [][Next]_vars

----------------------------------------------------------------------------
(* One series binder: its data, markers, options and primitives inputs *)

DataInputs == {<<>>, <<1>>, <<2>>, <<1, 2>>}
MarkerFns == {"default", "first", "last"}
OptionInputs == {"o1", "o2"}
NoHandlers == [k \in 1..3 |-> NoHandler]

NextSeries ==
  \/ MountChart(HostProps("TimeChart", "absent", 0, 0, FALSE, <<>>, NoHandlers))
  \/ \E custom \in BOOLEAN, data \in DataInputs, mfn \in MarkerFns,
        sprims \in SeriesPrimLists :
       binders = <<>> /\ MountSeries(0, custom, data, mfn, sprims, "o1")
  \/ \E b \in 1..MaxSeries, data \in DataInputs, mfn \in MarkerFns :
       SetData(b, data, mfn)
  \/ \E b \in 1..MaxSeries, opts \in OptionInputs : SetOptions(b, opts)
  \/ \E b \in 1..MaxSeries, new \in SeriesPrimLists :
       SetSeriesPrimitives(b, new)
  \/ \E b \in 1..MaxSeries : UnmountSeries(b)
  \/ UnmountChart

SpecSeries == Init /\ [][NextSeries]_vars

----------------------------------------------------------------------------
(* The resize effect of the Chart Host *)

AutoSizeInputs == {"absent", "true", "false"}
Widths == {0, 800, 1000}
Heights == {0, 400, 500}

NextResize ==
  \/ \E as \in AutoSizeInputs, width \in Widths, height \in Heights,
        force \in BOOLEAN :
       MountChart(HostProps("TimeChart", as, width, height, force, <<>>,
                            NoHandlers))
  \/ \E width \in Widths, height \in Heights, force \in BOOLEAN :
       SetSize(width, height, force)
  \/ \E as \in AutoSizeInputs : SetAutoSize(as)
  \/ UnmountChart

SpecResize == Init /\ [][NextResize]_vars

----------------------------------------------------------------------------
(* The tooltip under crosshair-move events, in the three chart variants *)

Variants == {"TimeChart", "PriceChart", "YieldCurveChart"}

\* values of the horizontal axis: Time (a UTC timestamp, a business day or
\* a date string) for TimeChart, a number for the other two
AxisValues(variant) ==
  IF variant = "TimeChart"
  THEN {Num(0), Num(1), Str("2024-01-01"), BusinessDay(1)}
  ELSE {Num(0), Num(1), Num(-1)}

Xs == {-1, 0, 1, ContainerWidth, ContainerWidth + 1}
Ys == {-1, 0, 1, ContainerHeight, ContainerHeight + 1}

CrosshairParams(variant) ==
  { [point |-> pt, time |-> t, seriesData |-> "m1"] :
      pt \in {NoPoint} \cup { Point(x, y) : x \in Xs, y \in Ys },
      t \in {Undefined} \cup AxisValues(variant) }

NextTooltip ==
  \/ \E variant \in Variants :
       MountChart(HostProps(variant, "absent", 0, 0, FALSE, <<>>, NoHandlers))
  \/ MountTooltip
  \/ \E param \in CrosshairParams(host.variant) : CrosshairMove(param)
  \/ UnmountTooltip
  \/ UnmountChart

SpecTooltip == Init /\ [][NextTooltip]_vars

----------------------------------------------------------------------------
(* The context hooks: useTimeChart, usePriceChart, useYieldCurveChart *)

ComponentKinds == {"Series", "CustomSeries", "Pane", "Tooltip"}

\* the message of the error thrown by the hook of a family
ErrorMessage(family) ==
  CASE family = "TimeChart" ->
         "[solid-lightweight-charts] No parent TimeChart component found!"
    [] family = "PriceChart" ->
         "[solid-lightweight-charts] No parent PriceChart component found!"
    [] OTHER ->
         "[solid-lightweight-charts] No parent YieldCurveChart component found!"

\* a hook that returns whatever it finds
useChartUnchecked(w, family) == [ok |-> TRUE, w |-> w]

\* use<Family>Chart, TimeChart.tsx 43-51: the context of the family is
\* provided by a mounted Chart Host of that family only
useChart(w, family) ==
  IF w.host.status = "mounted" /\ w.host.variant = family
  THEN [ok |-> TRUE, w |-> w]
  ELSE [ok |-> FALSE,
        w |-> Emit(w, Call("throw", 0, 0, <<ErrorMessage(family)>>, <<>>))]

\* the body of a component of the family, from its first statement, the hook
ActivateComponent(w, kind, family) ==
  LET r == useChart(w, family) IN
  IF ~r.ok THEN r.w
  ELSE CASE kind = "Pane" ->
              LET i == ResolvePaneIdx(r.w, NoIndex)
              IN [i.w EXCEPT !.panes = Append(@,
                    [alive |-> TRUE, index |-> NoIndex, memo |-> i.idx,
                     prims |-> <<>>])]
         [] kind = "Tooltip" -> TooltipOnMount(r.w)
         [] OTHER -> SeriesOnMount(r.w, 0, kind = "CustomSeries", <<>>,
                                   "default", <<>>, "none")

\* a component of a family is activated where no Chart Host of that family
\* encloses it: outside any chart, or inside a chart of another family
ActivateForeign(kind, family) ==
  /\ host.status # "disposed"
  /\ ~(host.status = "mounted" /\ host.variant = family)
  /\ Commit(ActivateComponent(World, kind, family),
            [Step("ActivateForeign", 0, 0) EXCEPT
               !.arg = <<[kind |-> kind, family |-> family]>>])

NextContext ==
  \/ \E variant \in Variants, prims \in PanePrimLists :
       MountChart(HostProps(variant, "absent", 0, 0, FALSE, prims, Handlers))
  \/ \E kind \in ComponentKinds, family \in Variants :
       ActivateForeign(kind, family)
  \/ \E prims \in PanePrimLists : MountPane(NoIndex, prims)
  \/ \E d \in 0..MaxPanes : MountSeries(d, FALSE, <<1>>, "default", <<"s1">>, "o1")
  \/ MountTooltip
  \/ UnmountChart

SpecContext == Init /\ [][NextContext]_vars

----------------------------------------------------------------------------
(* The subscription effects under changes of the handler inputs *)

\* the onClick, onDblClick or onCrosshairMove input (k = 1, 2, 3) of the
\* Chart Host is replaced.  createSubscriptionEffect received the input's
\* value at mount (TimeChart.tsx 142-148) and its effect reads that value
\* only (utils.ts 45-66): the effect has read no reactive input, so no
\* effect re-runs
SetHandlers(k, new) ==
  /\ host.status = "mounted"
  /\ new # host.handlers[k]
  /\ Commit([World EXCEPT !.host.handlers[k] = new], Step("SetHandlers", k, 0))

HandlerChoices ==
  {NoHandler, OneHandler("h1"), OneHandler("h2"), HandlerList(<<"h1", "h2">>)}

NextHandlers ==
  \/ \E hs \in [1..3 -> HandlerChoices] :
       MountChart(HostProps("TimeChart", "absent", 0, 0, FALSE, <<>>, hs))
  \/ \E k \in 1..3, new \in HandlerChoices : SetHandlers(k, new)
  \/ UnmountChart

SpecHandlers == Init /\ [][NextHandlers]_vars

----------------------------------------------------------------------------
(* The Pane declaration's index input under reactive updates: the memo of  *)
(* TimeChart.tsx 209-211 reads _props.index, so the runtime evaluates its  *)
(* function again when that input changes, and re-runs the effects that    *)
(* read paneIdx() when the memo's value changed.                           *)

MaxPaneIndex == 3      \* values the chart's pane counter hands out

\* the index input of the Pane declaration d is changed: the memo is
\* computed again; if its value changed, the pane-scope primitive effects of
\* the binders inside d, which read paneIdx(), re-run
SetPaneIndex(d, new) ==
  /\ d \in 1..Len(panes)
  /\ panes[d].alive
  /\ new # panes[d].index
  /\ new = NoIndex => chart.nextPaneIndex <= MaxPaneIndex
  /\ LET r == ResolvePaneIdx(World, new)
         w == [r.w EXCEPT !.panes[d].index = new, !.panes[d].memo = r.idx]
     IN Commit(IF r.idx = panes[d].memo THEN w
               ELSE RerunFrom(w, 1, { b \in 1..Len(binders) :
                                        binders[b].decl = d }),
               Step("SetPaneIndex", d, 0))

IndexChoices == {NoIndex, 0, 1, 2}

\* one Pane declaration with a reactive index, and the series inside it or
\* directly under the chart
NextIndex ==
  \/ MountChart(HostProps("TimeChart", "absent", 0, 0, FALSE, <<"p1">>, NoHandlers))
  \/ \E index \in IndexChoices : panes = <<>> /\ MountPane(index, <<"p2">>)
  \/ \E d \in 0..1 : MountSeries(d, FALSE, <<1>>, "default", <<>>, "o1")
  \/ \E new \in IndexChoices : SetPaneIndex(1, new)
  \/ \E b \in 1..MaxSeries : UnmountSeries(b)
  \/ UnmountPane(1)
  \/ UnmountChart

SpecIndex == Init /\ [][NextIndex]_vars

----------------------------------------------------------------------------
(* The attached and detached callbacks of both scopes: one Pane            *)
(* declaration, the series inside it or directly under the chart, and the  *)
(* three primitive lists under replacement                                 *)

NextCallbacks ==
  \/ \E prims \in PanePrimLists :
       MountChart(HostProps("TimeChart", "absent", 0, 0, FALSE, prims, NoHandlers))
  \/ \E index \in {NoIndex, 0}, prims \in PanePrimLists :
       panes = <<>> /\ MountPane(index, prims)
  \/ \E d \in 0..1, sprims \in SeriesPrimLists :
       MountSeries(d, FALSE, <<1>>, "default", sprims, "o1")
  \/ \E new \in PanePrimLists : SetChartPrimitives(new)
  \/ \E new \in PanePrimLists : SetPanePrimitives(1, new)
  \/ \E b \in 1..MaxSeries, new \in SeriesPrimLists :
       SetSeriesPrimitives(b, new)
  \/ \E new \in {NoIndex, 0} : SetPaneIndex(1, new)
  \/ \E b \in 1..MaxSeries : UnmountSeries(b)
  \/ UnmountPane(1)
  \/ UnmountChart

SpecCallbacks == Init /\ [][NextCallbacks]_vars

----------------------------------------------------------------------------
(* The tooltip's rendering: its inputs, the position memo, the content,    *)
(* next to a series and the resize effect of the same chart                *)

\* a Tooltip is mounted with the given inputs in a chart whose container has
\* the given viewport rectangle
MountTooltipWith(cfg, rect) ==
  /\ chart.status = "live"
  /\ tip.status = "none"
  /\ Commit(TooltipOnMount([World EXCEPT !.tip.cfg = cfg, !.tip.rect = rect]),
            Step("MountTooltip", 0, 0))

\* the offset, fixed or onPositionCalculated input of the Tooltip is
\* changed: the position memo, which reads the three, runs again
SetTooltipInputs(offset, fixed, hook) ==
  /\ tip.status = "mounted"
  /\ <<offset, fixed, hook>> # <<tip.cfg.offset, tip.cfg.fixed, tip.cfg.hook>>
  /\ Commit(tooltipPosition([World EXCEPT !.tip.cfg.offset = offset,
                                          !.tip.cfg.fixed = fixed,
                                          !.tip.cfg.hook = hook]),
            Step("SetTooltipInputs", 0, 0))

OffsetInputs ==
  {NoOffset, Offset(Some(5), Absent), Offset(Some(5), Some(3))}
HookInputs == {"none", "shift"}
ContentInputs == {"none", "children", "component"}
Rects == {[left |-> 100, top |-> 50]}

ViewParams ==
  { [point |-> pt, time |-> t, seriesData |-> "m1"] :
      pt \in {NoPoint, Point(-1, 0), Point(0, 0), Point(1, ContainerHeight)},
      t \in {Undefined, Num(1)} }
  \cup { [point |-> Point(0, 0), time |-> Num(1), seriesData |-> "m2"] }

NextTooltipView ==
  \/ MountChart(HostProps("TimeChart", "false", 800, 400, FALSE, <<>>, NoHandlers))
  \/ binders = <<>> /\ MountSeries(0, FALSE, <<1>>, "first", <<>>, "o1")
  \/ \E data \in {<<1>>, <<2>>} : SetData(1, data, "first")
  \/ \E width \in {800, 1000} : SetSize(width, 400, FALSE)
  \/ \E offset \in OffsetInputs, fixed \in BOOLEAN, hook \in HookInputs,
        content \in ContentInputs, rect \in Rects :
       MountTooltipWith(TooltipInputs(offset, fixed, hook, content), rect)
  \/ \E offset \in OffsetInputs, fixed \in BOOLEAN, hook \in HookInputs :
       SetTooltipInputs(offset, fixed, hook)
  \/ \E param \in ViewParams : CrosshairMove(param)
  \/ UnmountTooltip
  \/ UnmountSeries(1)
  \/ UnmountChart

SpecTooltipView == Init /\ [][NextTooltipView]_vars

----------------------------------------------------------------------------
(* The chart's crosshair-move source: the chart calls the handlers that    *)
(* are subscribed, in the order of their subscription                      *)

RECURSIVE CallSubscribers(_, _, _)
CallSubscribers(w, handlers, param) ==
  IF handlers = <<>> THEN w
  ELSE CallSubscribers(
         IF Head(handlers) = "tooltip" THEN onCrosshairMove(w, param)
         ELSE Emit(w, Call("handler", 3, 0, <<Head(handlers)>>, <<>>)),
         Tail(handlers), param)

\* the chart raises a crosshair-move event
CrosshairEvent(param) ==
  /\ chart.status = "live"
  /\ Commit(CallSubscribers(World, subs[3], param),
            [Step("CrosshairEvent", 0, 0) EXCEPT !.arg = <<param>>])

NextTooltipLife ==
  \/ MountChart(HostProps("TimeChart", "absent", 0, 0, FALSE, <<>>, Handlers))
  \/ \E content \in ContentInputs, hook \in HookInputs :
       MountTooltipWith(TooltipInputs(NoOffset, FALSE, hook, content), OriginRect)
  \/ \E param \in ViewParams : CrosshairEvent(param)
  \/ UnmountTooltip
  \/ UnmountChart

SpecTooltipLife == Init /\ [][NextTooltipLife]_vars

----------------------------------------------------------------------------
(* One series binder inside a Pane declaration or directly under the chart, *)
(* with each of its input classes changing                                  *)

FrameData == {<<1>>, <<2>>}

NextFrame ==
  \/ \E prims \in PanePrimLists :
       MountChart(HostProps("TimeChart", "absent", 0, 0, FALSE, prims, NoHandlers))
  \/ \E index \in {NoIndex, 0}, prims \in PanePrimLists :
       panes = <<>> /\ MountPane(index, prims)
  \/ \E d \in 0..1, sprims \in SeriesPrimLists :
       binders = <<>> /\ MountSeries(d, FALSE, <<1>>, "default", sprims, "o1")
  \/ \E b \in 1..MaxSeries, data \in FrameData : SetData(b, data, "default")
  \/ \E b \in 1..MaxSeries, opts \in OptionInputs : SetOptions(b, opts)
  \/ \E b \in 1..MaxSeries, new \in SeriesPrimLists :
       SetSeriesPrimitives(b, new)
  \/ \E new \in PanePrimLists : SetChartPrimitives(new)
  \/ \E d \in 1..MaxPanes, new \in PanePrimLists : SetPanePrimitives(d, new)
  \/ \E b \in 1..MaxSeries : UnmountSeries(b)
  \/ UnmountChart

SpecFrame == Init /\ [][NextFrame]_vars

----------------------------------------------------------------------------
(* Series binders of the three kinds: the built-in Series, the inline       *)
(* CustomSeries and the helper createCustomSeries                           *)

BinderKinds == {"Series", "CustomSeries", "createCustomSeries"}

MountBinder(kind, d, data, mfn, sprims, opts) ==
  CASE kind = "Series" -> MountSeries(d, FALSE, data, mfn, sprims, opts)
    [] kind = "CustomSeries" ->
         MountCustomSeries(d, "component", data, mfn, sprims, opts)
    [] OTHER -> MountCustomSeries(d, "helper", data, mfn, sprims, opts)

NextBinders ==
  \/ \E prims \in PanePrimLists :
       MountChart(HostProps("TimeChart", "absent", 0, 0, FALSE, prims, NoHandlers))
  \/ \E prims \in PanePrimLists : panes = <<>> /\ MountPane(NoIndex, prims)
  \/ \E kind \in BinderKinds, d \in 0..1, sprims \in SeriesPrimLists :
       binders = <<>> /\ MountBinder(kind, d, <<1>>, "first", sprims, "o1")
  \/ \E b \in 1..MaxSeries, data \in FrameData, mfn \in {"first", "last"} :
       SetData(b, data, mfn)
  \/ \E b \in 1..MaxSeries, opts \in OptionInputs : SetOptions(b, opts)
  \/ \E b \in 1..MaxSeries, new \in SeriesPrimLists :
       SetSeriesPrimitives(b, new)
  \/ \E new \in PanePrimLists : SetChartPrimitives(new)
  \/ \E d \in 1..MaxPanes, new \in PanePrimLists : SetPanePrimitives(d, new)
  \/ \E b \in 1..MaxSeries : UnmountSeries(b)
  \/ UnmountChart

SpecBinders == Init /\ [][NextBinders]_vars

----------------------------------------------------------------------------
(* A series binder whose onCreateSeries callback throws *)

\* a Series is activated with an onCreateSeries that throws
MountSeriesThrowing(d, data, sprims) ==
  /\ chart.status = "live"
  /\ Len(binders) < MaxSeries
  /\ d = 0 \/ (d \in 1..Len(panes) /\ panes[d].alive)
  /\ Commit(SeriesOnMountThrowing(World, d, FALSE, data, "default", sprims, "o1"),
            Step("MountSeriesThrowing", d, Len(binders) + 1))

\* an input of a binder whose onMount threw is changed: the binder has no
\* effect that reads it
SetInputOfFailed(b, data, sprims, opts) ==
  /\ b \in 1..Len(binders)
  /\ binders[b].state = "failed"
  /\ <<data, sprims, opts>> #
       <<binders[b].data, binders[b].sprims, binders[b].opts>>
  /\ Commit([World EXCEPT !.binders[b].data = data,
                          !.binders[b].sprims = sprims,
                          !.binders[b].opts = opts],
            Step("SetInputOfFailed", binders[b].decl, b))

\* a binder whose onMount threw is unmounted: its owner has no cleanup
UnmountFailed(b) ==
  /\ b \in 1..Len(binders)
  /\ binders[b].state = "failed"
  /\ Commit([World EXCEPT !.binders[b] = Disposed(@)],
            Step("UnmountFailed", binders[b].decl, b))

NextThrowing ==
  \/ \E prims \in PanePrimLists :
       MountChart(HostProps("TimeChart", "absent", 0, 0, FALSE, prims, NoHandlers))
  \/ \E prims \in PanePrimLists : panes = <<>> /\ MountPane(NoIndex, prims)
  \/ \E d \in 0..1 : MountSeries(d, FALSE, <<1>>, "default", <<"s1">>, "o1")
  \/ \E d \in 0..1, sprims \in SeriesPrimLists :
       MountSeriesThrowing(d, <<1>>, sprims)
  \/ \E b \in 1..MaxSeries, data \in FrameData, sprims \in SeriesPrimLists,
        opts \in OptionInputs :
       SetInputOfFailed(b, data, sprims, opts)
  \/ \E new \in PanePrimLists : SetChartPrimitives(new)
  \/ \E d \in 1..MaxPanes, new \in PanePrimLists : SetPanePrimitives(d, new)
  \/ \E b \in 1..MaxSeries : UnmountSeries(b)
  \/ \E b \in 1..MaxSeries : UnmountFailed(b)
  \/ UnmountChart

SpecThrowing == Init /\ [][NextThrowing]_vars

----------------------------------------------------------------------------
(* Properties *)

MountedBinders == { b \in 1..Len(binders) : binders[b].state = "mounted" }

\* the binders whose pane-scope effect reads the Chart Host's list
ChartScopeReaders == { b \in MountedBinders : binders[b].readIdx = 0 }

\* the binders whose pane-scope effect reads the list of the declaration d
PaneScopeReaders(d) ==
  { b \in MountedBinders : binders[b].decl = d /\ binders[b].readIdx # 0 }

\* no other declaration's binder is mounted on the pane object i
OwnPane(i, d) ==
  \A b \in MountedBinders : binders[b].seriesPane = i => binders[b].decl = d

AttachedOnce(i) == \A p \in PanePrims : Count(paneAtt[i], p) <= 1

\* in the call sequence s, between two attachPrimitive calls for one
\* primitive on one pane there is a detachPrimitive call for it on that pane
DetachBetweenAttaches(s) ==
  \A i, j \in 1..Len(s) :
    (/\ i < j
     /\ s[i].f = "pane.attachPrimitive" /\ s[j].f = "pane.attachPrimitive"
     /\ s[i].on = s[j].on /\ s[i].p = s[j].p)
    => \E k \in (i + 1)..(j - 1) :
         /\ s[k].f = "pane.detachPrimitive"
         /\ s[k].on = s[i].on /\ s[k].p = s[i].p

\* C1: when no Pane declaration of the chart gives an index, the d-th
\* declaration has index d, the chart's counter is one past the number of
\* declarations, and every series inside a declaration was created with, and
\* reads at each run of its effects, that same index, however often the
\* index has been read.
C1_AutoIndices ==
  (\A d \in 1..Len(panes) : panes[d].index = NoIndex) =>
    /\ \A d \in 1..Len(panes) : panes[d].memo = d
    /\ chart.status # "none" => chart.nextPaneIndex = Len(panes) + 1
    /\ \A b \in 1..Len(binders) :
         binders[b].decl # 0 =>
           /\ binders[b].createdIdx = binders[b].decl
           /\ binders[b].readIdx = binders[b].decl

\* two declarations without index, a series in the second one, and its
\* pane-scope effect re-run on a change of the declaration's list
C1_Witness ==
  /\ Len(panes) = 2
  /\ \A d \in 1..2 : panes[d].index = NoIndex
  /\ last.op = "SetPanePrimitives" /\ last.d = 2
  /\ PaneScopeReaders(2) # {}
  /\ \E i \in 1..Len(calls) : calls[i].f = "pane.onAttachPrimitives"

C2_Step ==
  /\ last'.op = "SetChartPrimitives" =>
       /\ Named(calls', {"onPrimitivesDetached"}) =
            [k \in 1..Cardinality(ChartScopeReaders) |->
               Call("onPrimitivesDetached", 0, 0, host.prims, <<>>)]
       /\ Named(calls', {"onPrimitivesAttached"}) =
            [k \in 1..Cardinality(ChartScopeReaders) |->
               Call("onPrimitivesAttached", 0, 0, host'.prims, <<>>)]
       /\ ChartScopeReaders # {} => paneAtt'[0] = host'.prims
  /\ last'.op = "SetPanePrimitives" =>
       LET d == last'.d IN
       /\ Named(calls', {"pane.onDetachPrimitives"}) =
            [k \in 1..Cardinality(PaneScopeReaders(d)) |->
               Call("pane.onDetachPrimitives", d, 0, panes[d].prims, <<>>)]
       /\ Named(calls', {"pane.onAttachPrimitives"}) =
            [k \in 1..Cardinality(PaneScopeReaders(d)) |->
               Call("pane.onAttachPrimitives", d, 0, panes'[d].prims, <<>>)]
       /\ \A b \in PaneScopeReaders(d) :
            LET i == binders[b].seriesPane IN
            i # NoPane =>
              /\ \A p \in Range(panes'[d].prims) : Count(paneAtt'[i], p) = 1
              /\ OwnPane(i, d) => paneAtt'[i] = panes'[d].prims
  /\ last'.op \in {"SetChartPrimitives", "SetPanePrimitives"} =>
       /\ \A i \in DOMAIN paneAtt : AttachedOnce(i)'
       /\ DetachBetweenAttaches(calls')

AttachCalls(s, i, p) ==
  Named(SelectSeq(s, LAMBDA c : c.on = i /\ c.p = <<p>>), {"pane.attachPrimitive"})

C3_Step ==
  last'.op = "SetPanePrimitives" =>
    LET d == last'.d IN
    \A b1, b2 \in PaneScopeReaders(d) :
      (/\ b1 # b2
       /\ binders[b1].seriesPane = binders[b2].seriesPane
       /\ binders[b1].seriesPane # NoPane)
      => \A p \in Range(panes'[d].prims) \ Range(panes[d].prims) :
           Len(AttachCalls(calls', binders[b1].seriesPane, p)) = 1

\* C3: when a primitive is added to the list of a declaration that holds two
\* series on one pane object, that pane object receives exactly one
\* attachPrimitive call for the new primitive.
C3_AttachOnce == [][C3_Step]_vars

\* two series of one declaration on one pane object, and a primitive added
\* to the declaration's list
C3_Witness ==
  /\ last.op = "SetPanePrimitives"
  /\ panes[last.d].prims = <<"p1", "p2">>
  /\ Cardinality(PaneScopeReaders(last.d)) = 2
  /\ \A b \in PaneScopeReaders(last.d) : binders[b].seriesPane = 1
  /\ Len(AttachCalls(calls, 1, "p2")) = 2
  /\ Count(paneAtt[1], "p2") = 1
  /\ \E i \in 1..Len(calls) :
       calls[i] = Call("pane.onDetachPrimitives", last.d, 0, <<"p1">>, <<>>)

\* the calls a run of the data effect makes
DataCalls ==
  {"series.setData", "onSetData", "markers", "createSeriesMarkers", "onSetMarkers"}

C4_Step ==
  last'.op \in {"MountSeries", "SetData"} =>
    LET b == last'.b
        data == binders'[b].data
        dataMarkers == ApplyMarkers(binders'[b].mfn, data)
    IN Named(calls', DataCalls) =
         << Call("series.setData", b, 0, <<>>, data),
            Call("onSetData", b, 0, <<>>, data),
            Call("markers", b, 0, <<>>, data),
            Call("createSeriesMarkers", b, 0, <<>>, dataMarkers),
            Call("onSetMarkers", b, 0, <<>>, dataMarkers) >>

\* C4: a run of the data effect, at activation or on a change of the data
\* or markers input, calls in this order and nothing else of the kind:
\* setData with the new data, onSetData with the new data, the marker
\* function on the new data, createSeriesMarkers with its result, and
\* onSetMarkers with that result.
C4_DataEffectOrder == [][C4_Step]_vars

\* the data <<1>> has been replaced by <<2>> under a marker function that
\* marks the first point: the markers applied are those of <<2>>
C4_Witness ==
  /\ last.op = "SetData"
  /\ binders[last.b].data = <<2>> /\ binders[last.b].mfn = "first"
  /\ lib[last.b].plugins = << <<1>>, <<2>> >>
  /\ lib[last.b].data = <<2>>

\* the binders a step disposes
Unmounted ==
  { b \in MountedBinders : binders'[b].state = "unmounted" }

C5_Step ==
  \A b \in Unmounted :
    /\ Named(SelectSeq(calls', LAMBDA c : c.on = b), {"onRemoveSeries"}) =
         << Call("onRemoveSeries", b, binders[b].createdIdx, <<>>, <<>>) >>
    /\ lib[b].state = "added" /\ lib'[b].state = "removed"
    /\ Named(SelectSeq(calls', LAMBDA c : c.on = b), {"onDetachPrimitives"}) =
         << Call("onDetachPrimitives", b, 0, binders[b].capSeries, <<>>) >>
    /\ \/ /\ binders[b].createdIdx = 0
          /\ \E i \in 1..Len(calls') :
               calls'[i] = Call("onPrimitivesDetached", 0, 0, host.prims, <<>>)
       \/ /\ binders[b].createdIdx # 0
          /\ \E i \in 1..Len(calls') :
               calls'[i] = Call("pane.onDetachPrimitives", binders[b].decl, 0,
                                panes[binders[b].decl].prims, <<>>)

OutsideEvent(e) ==
  \/ ~e.point.def
  \/ e.time = Undefined
  \/ e.point.x < 0 \/ e.point.x > ContainerWidth
  \/ e.point.y < 0 \/ e.point.y > ContainerHeight

C7_Step ==
  (last'.op = "CrosshairMove" /\ OutsideEvent(last'.arg[1])) =>
    /\ ~tip'.visible
    /\ calls' = << Call("onHide", 0, 0, <<>>, <<>>) >>
    /\ tip'.props = tip.props

\* C7: a crosshair-move event with no point, no axis value or a point
\* outside the container leaves the tooltip hidden, calls onHide once and
\* nothing else, and leaves the stored tooltip state as it was, whether the
\* tooltip was visible or hidden before.
C7_OutsideHides == [][C7_Step]_vars

\* a tooltip that has been shown is hidden by an event left of the container
C7_Witness ==
  /\ last.op = "CrosshairMove"
  /\ last.arg[1].point = Point(-1, 0)
  /\ last.arg[1].time # Undefined
  /\ tip.props # InitialTooltipProps
  /\ ~tip.visible

C8_Step ==
  (last'.op = "CrosshairMove" /\ ~OutsideEvent(last'.arg[1])) =>
    /\ tip'.visible
    /\ calls' = << Call("onShow", 0, 0, <<>>, <<>>) >>

\* C8: a crosshair-move event with a point inside the container and a
\* defined axis value, whatever that value, makes the tooltip visible and
\* calls onShow.
C8_InsideShows == [][C8_Step]_vars

\* an event inside the container at the axis value 0 of a PriceChart has
\* hidden the tooltip
C8_Witness ==
  /\ last.op = "CrosshairMove"
  /\ host.variant = "PriceChart"
  /\ last.arg[1].point = Point(1, 1)
  /\ last.arg[1].time = Num(0)
  /\ ~tip.visible
  /\ calls = << Call("onHide", 0, 0, <<>>, <<>>) >>

C9_Step ==
  (last'.op = "SetSize" /\ ~autoSize(host)) =>
    calls' = << Call("chart.resize", 0, 0, <<>>,
                     <<host'.width, host'.height, host'.force>>),
                Call("onResize", 0, 0, <<>>, <<host'.width, host'.height>>) >>

\* C9: with autoSize disabled, a change of width, height or
\* forceRepaintOnResize calls chart.resize with the current three values
\* and then onResize with the current width and height.
C9_Resize == [][C9_Step]_vars

\* with autoSize disabled the size has become 1000 x 500
C9_Witness ==
  /\ last.op = "SetSize"
  /\ host.autoSize = "false"
  /\ host.width = 1000 /\ host.height = 500 /\ ~host.force
  /\ calls = << Call("chart.resize", 0, 0, <<>>, <<1000, 500, FALSE>>),
                Call("onResize", 0, 0, <<>>, <<1000, 500>>) >>

C10_Step ==
  (host'.status = "mounted" /\ autoSize(host')) =>
    Named(calls', {"chart.resize", "onResize"}) = <<>>

\* C10: no step that leaves autoSize enabled, a change of width, height or
\* forceRepaintOnResize in particular, calls chart.resize or onResize.
C10_NoResize == [][C10_Step]_vars

\* with autoSize enabled the size has become 1000 x 500
C10_Witness ==
  /\ last.op = "SetSize"
  /\ autoSize(host)
  /\ host.width = 1000 /\ host.height = 500
  /\ calls = <<>>

C11_Step ==
  last'.op = "ActivateForeign" =>
    /\ calls' = << Call("throw", 0, 0,
                        <<ErrorMessage(last'.arg[1].family)>>, <<>>) >>
    /\ UNCHANGED <<host, chart, subs, panes, binders, lib, paneAtt, tip>>

\* C11: a Series, CustomSeries, Pane or Tooltip of a family activated with no
\* enclosing Chart Host of that family throws the error whose message names
\* the family, and makes no call on a chart, a series, the pane counter or a
\* subscription: nothing but the throw happens and the state is unchanged.
C11_NoParentThrows == [][C11_Step]_vars

\* a PriceChart series has been activated inside a mounted TimeChart
C11_Witness ==
  /\ last.op = "ActivateForeign"
  /\ last.arg[1] = [kind |-> "Series", family |-> "PriceChart"]
  /\ host.status = "mounted" /\ host.variant = "TimeChart"
  /\ calls[1].p =
       <<"[solid-lightweight-charts] No parent PriceChart component found!">>

\* C12: while the Chart Host is mounted, the handlers subscribed to each of
\* click, double-click and crosshair-move are those of the current handler
\* input, and after teardown none is subscribed.
C12_SubscribedIsCurrent ==
  /\ host.status = "mounted" =>
       \A k \in 1..3 : subs[k] = host.handlers[k].hs
  /\ host.status = "disposed" => \A k \in 1..3 : subs[k] = <<>>

\* the click handler h1 has been replaced by h2, and h1 is still the one
\* subscribed
C12_Witness ==
  /\ last.op = "SetHandlers" /\ last.d = 1
  /\ host.handlers[1] = OneHandler("h2")
  /\ subs[1] = <<"h1">>
  /\ calls = <<>>

AlivePanes == { d \in 1..Len(panes) : panes[d].alive }
AutoPanes == { d \in 1..Len(panes) : panes[d].index = NoIndex }

C14_Step ==
  /\ last'.op = "MountChart" => chart'.nextPaneIndex = 1
  /\ chart.status = "live" => chart'.nextPaneIndex >= chart.nextPaneIndex
  /\ (last'.op = "MountPane" /\ panes'[Len(panes')].index = NoIndex) =>
       /\ panes'[Len(panes')].memo = chart.nextPaneIndex
       /\ chart'.nextPaneIndex = chart.nextPaneIndex + 1
  /\ \A d1, d2 \in AutoPanes' :
       /\ panes'[d1].memo >= 1
       /\ panes'[d1].memo < chart'.nextPaneIndex
       /\ d1 < d2 => panes'[d1].memo < panes'[d2].memo

\* C14: the counter is 1 when the chart is created and never decreases; an
\* auto-assignment returns the counter's value and advances it by one; the
\* auto-assigned indices, of unmounted declarations included, are at least
\* 1, below the counter and strictly increasing in activation order.
C14_Counter == [][C14_Step]_vars

\* an auto-assigned Pane has been unmounted and another one mounted after it
C14_Witness ==
  /\ last.op = "MountPane"
  /\ Len(panes) = 2
  /\ ~panes[1].alive /\ panes[2].alive
  /\ panes[1].index = NoIndex /\ panes[2].index = NoIndex
  /\ panes[1].memo = 1 /\ panes[2].memo = 2

C15_Step ==
  /\ (last'.op = "MountPane" /\ panes'[Len(panes')].index # NoIndex) =>
       /\ panes'[Len(panes')].memo = panes'[Len(panes')].index
       /\ chart'.nextPaneIndex = chart.nextPaneIndex
  /\ \A d \in AutoPanes' :
       panes'[d].memo = Cardinality({ e \in AutoPanes' : e <= d })

\* C15: a Pane with an explicit index gets that index and leaves the counter
\* as it was, so the k-th Pane without index gets k whatever Panes with
\* explicit indices were declared before it.
C15_ExplicitVerbatim == [][C15_Step]_vars

\* a Pane with the explicit index 1 was declared, then a Pane without index,
\* which got 1
C15_Witness ==
  /\ last.op = "MountPane"
  /\ Len(panes) = 2
  /\ panes[1].index = 1 /\ panes[1].memo = 1
  /\ panes[2].index = NoIndex /\ panes[2].memo = 1
  /\ chart.nextPaneIndex = 2

C16_Step ==
  \A d \in 1..Len(panes) :
    (panes[d].alive /\ d <= Len(panes') /\ panes'[d].alive) =>
      panes'[d].memo = panes[d].memo

\* C16: the resolved index of a Pane declaration is the same in every state
\* of its lifetime, whatever input of the declaration is updated.
C16_IndexStable == [][C16_Step]_vars

\* the index input of a mounted Pane declaration was changed and the
\* accessor now returns another value than the one its series was created
\* with
C16_Witness ==
  /\ last.op = "SetPaneIndex"
  /\ \E b \in MountedBinders :
       /\ binders[b].decl = last.d
       /\ binders[b].createdIdx # panes[last.d].memo

\* the pane index of the series binder b: paneIdx() of its context
IndexIn(bs, ps, b) == IF bs[b].decl = 0 THEN 0 ELSE ps[bs[b].decl].memo
IndexOf(b) == IndexIn(binders, panes, b)

ChartCallbacks == {"onPrimitivesAttached", "onPrimitivesDetached"}
PaneCallbacks == {"pane.onAttachPrimitives", "pane.onDetachPrimitives"}
PaneCalls == {"pane.attachPrimitive", "pane.detachPrimitive"}

\* the primitives of the attachPrimitive calls of s, in call order
AttachedIn(s) ==
  LET a == Named(s, {"pane.attachPrimitive"})
  IN [k \in 1..Len(a) |-> a[k].p[1]]

ZeroIndexed == { b \in MountedBinders : IndexOf(b) = 0 }
NonZeroIn(d) ==
  { b \in MountedBinders : binders[b].decl = d /\ IndexOf(b) # 0 }

C17_Step ==
  /\ last'.op = "MountSeries" =>
       LET b == last'.b
           d == last'.d
           idx == IndexIn(binders', panes', b)
           list == IF idx = 0 THEN host.prims ELSE panes[d].prims
       IN /\ Named(calls', ChartCallbacks \cup PaneCallbacks) =
               IF idx = 0
               THEN <<Call("onPrimitivesAttached", 0, 0, host.prims, <<>>)>>
               ELSE <<Call("pane.onAttachPrimitives", d, 0, panes[d].prims, <<>>)>>
          /\ binders'[b].seriesPane # NoPane => AttachedIn(calls') = list
  /\ last'.op = "UnmountSeries" =>
       LET b == last'.b
           d == last'.d
       IN Named(calls', ChartCallbacks \cup PaneCallbacks) =
            IF IndexOf(b) = 0
            THEN <<Call("onPrimitivesDetached", 0, 0, host.prims, <<>>)>>
            ELSE <<Call("pane.onDetachPrimitives", d, 0, panes[d].prims, <<>>)>>
  /\ last'.op = "SetChartPrimitives" =>
       /\ Named(calls', PaneCallbacks) = <<>>
       /\ Len(Named(calls', ChartCallbacks)) = 2 * Cardinality(ZeroIndexed)
       /\ \A i \in 1..Len(calls') :
            calls'[i].f \in PaneCalls =>
              \E b \in ZeroIndexed : binders[b].seriesPane = calls'[i].on
  /\ last'.op = "SetPanePrimitives" =>
       /\ Named(calls', ChartCallbacks) = <<>>
       /\ Len(Named(calls', PaneCallbacks)) =
            2 * Cardinality(NonZeroIn(last'.d))
       /\ \A i \in 1..Len(calls') :
            /\ calls'[i].f \in PaneCallbacks => calls'[i].on = last'.d
            /\ calls'[i].f \in PaneCalls =>
                 \E b \in NonZeroIn(last'.d) :
                   binders[b].seriesPane = calls'[i].on

\* C17: a series whose pane index is 0 attaches the Chart Host's list and
\* reports to the Chart Host's callbacks, a series whose pane index is not 0
\* attaches its Pane declaration's list and reports to that declaration's
\* callbacks; a replacement of the chart's list makes calls only for the
\* series of index 0, a replacement of a declaration's list only for the
\* series of non-zero index inside it.
C17_Scope == [][C17_Step]_vars

\* the list of a Pane declaration with explicit index 0 is replaced while a
\* series is mounted inside it: nothing is called
C17_Witness ==
  /\ last.op = "SetPanePrimitives"
  /\ panes[last.d].index = 0
  /\ \E b \in MountedBinders : binders[b].decl = last.d
  /\ calls = <<>>

\* the k-th smallest and the k-th largest element of a set of numbers
Kth(S, k) == CHOOSE x \in S : Cardinality({ y \in S : y <= x }) = k
KthDesc(S, k) == CHOOSE x \in S : Cardinality({ y \in S : y >= x }) = k

\* the callback call of the pane scope a binder closed over
ScopeCall(what, bd) ==
  IF bd.capDetach = "chart"
  THEN Call(IF what = "attached" THEN "onPrimitivesAttached"
            ELSE "onPrimitivesDetached", 0, 0, bd.capPane, <<>>)
  ELSE Call(IF what = "attached" THEN "pane.onAttachPrimitives"
            ELSE "pane.onDetachPrimitives", bd.decl, 0, bd.capPane, <<>>)

SeriesCall(what, b, bd) ==
  Call(IF what = "attached" THEN "onAttachPrimitives"
       ELSE "onDetachPrimitives", b, 0, bd.capSeries, <<>>)

C18_Step ==
  LET ps == Named(calls', ChartCallbacks \cup PaneCallbacks)
      ss == Named(calls', {"onAttachPrimitives", "onDetachPrimitives"})
      new == MountedBinders' \ MountedBinders
      gone == MountedBinders \ MountedBinders'
      paneRerun ==
        CASE last'.op = "SetChartPrimitives" -> ChartScopeReaders
          [] last'.op = "SetPanePrimitives" -> PaneScopeReaders(last'.d)
          [] last'.op = "SetPaneIndex" ->
               IF panes'[last'.d].memo = panes[last'.d].memo THEN {}
               ELSE { b \in MountedBinders : binders[b].decl = last'.d }
          [] OTHER -> {}
      seriesRerun ==
        IF last'.op = "SetSeriesPrimitives" THEN {last'.b} ELSE {}
  IN
  \* a binder's first callback in each scope is attached
  /\ new # {} =>
       /\ ps = [k \in 1..Cardinality(new) |->
                  ScopeCall("attached", binders'[Kth(new, k)])]
       /\ ss = [k \in 1..Cardinality(new) |->
                  SeriesCall("attached", Kth(new, k), binders'[Kth(new, k)])]
  \* at teardown the one callback of each scope is detached, with the list
  \* attached last
  /\ gone # {} =>
       /\ ps = [k \in 1..Cardinality(gone) |->
                  ScopeCall("detached", binders[KthDesc(gone, k)])]
       /\ ss = [k \in 1..Cardinality(gone) |->
                  SeriesCall("detached", KthDesc(gone, k),
                             binders[KthDesc(gone, k)])]
  \* in between, detached with the list attached last, then attached
  /\ (new = {} /\ gone = {}) =>
       /\ ps = [k \in 1..(2 * Cardinality(paneRerun)) |->
                  IF k % 2 = 1
                  THEN ScopeCall("detached", binders[Kth(paneRerun, (k + 1) \div 2)])
                  ELSE ScopeCall("attached", binders'[Kth(paneRerun, k \div 2)])]
       /\ ss = [k \in 1..(2 * Cardinality(seriesRerun)) |->
                  IF k % 2 = 1
                  THEN SeriesCall("detached", Kth(seriesRerun, (k + 1) \div 2),
                                  binders[Kth(seriesRerun, (k + 1) \div 2)])
                  ELSE SeriesCall("attached", Kth(seriesRerun, k \div 2),
                                  binders'[Kth(seriesRerun, k \div 2)])]

\* C18: for each series binder and each of the two scopes, the step that
\* mounts the binder calls attached once, a step that re-runs the scope's
\* effect calls detached with the list of the binder's last attached call and
\* then attached, the step that disposes the binder calls detached once with
\* the list of its last attached call, and no other step calls either; so
\* the callbacks alternate from attached to a final detached.
C18_Alternation == [][C18_Step]_vars

\* a series whose pane list and own list were attached is unmounted: each
\* scope reports its list as detached
C18_Witness ==
  /\ last.op = "UnmountSeries"
  /\ \E i, j \in 1..Len(calls) :
       /\ calls[i] = Call("onDetachPrimitives", last.b, 0, <<"s1">>, <<>>)
       /\ calls[j] = Call("pane.onDetachPrimitives", last.d, 0,
                          <<"p1", "p2">>, <<>>)
       /\ i < j

\* the detachPrimitive and the attachPrimitive calls on the series b for the
\* primitives of a list, in list order
SeriesDetachCalls(b, list) ==
  [k \in 1..Len(list) |-> Call("series.detachPrimitive", b, 0, <<list[k]>>, <<>>)]
SeriesAttachCalls(b, list) ==
  [k \in 1..Len(list) |-> Call("series.attachPrimitive", b, 0, <<list[k]>>, <<>>)]

C19_Step ==
  last'.op = "SetSeriesPrimitives" =>
    LET b == last'.b
        old == binders[b].sprims
        new == binders'[b].sprims
    IN /\ calls' = SeriesDetachCalls(b, old)
                   \o <<Call("onDetachPrimitives", b, 0, old, <<>>)>>
                   \o SeriesAttachCalls(b, new)
                   \o <<Call("onAttachPrimitives", b, 0, new, <<>>)>>
       /\ lib'[b].att = new
       /\ paneAtt' = paneAtt

\* C19: a replacement of a series' own primitive list makes exactly these
\* calls, in this order: detachPrimitive on the series for each primitive of
\* the previous list, the series' onDetachPrimitives with the previous list,
\* attachPrimitive on the series for each primitive of the new list, the
\* series' onAttachPrimitives with the new list; afterwards the series holds
\* the new list, and the panes' primitives are as before.
C19_SeriesReplacement == [][C19_Step]_vars

\* the list <<s1, s2>> of a series in a chart with chart primitives has been
\* replaced by <<s1>>
C19_Witness ==
  /\ last.op = "SetSeriesPrimitives"
  /\ host.prims # <<>>
  /\ Len(calls) = 5
  /\ calls[3] = Call("onDetachPrimitives", last.b, 0, <<"s1", "s2">>, <<>>)
  /\ calls[5] = Call("onAttachPrimitives", last.b, 0, <<"s1">>, <<>>)

\* the markers the series b shows: those of every markers plugin that
\* createSeriesMarkers has attached to it
AppliedMarkers(b) ==
  UNION { Range(lib[b].plugins[k]) : k \in 1..Len(lib[b].plugins) }

\* C20: the markers applied to a mounted series are exactly those the marker
\* function derives from the series' current data; none derived from an
\* earlier data value remains.
C20_MarkersCurrent ==
  \A b \in MountedBinders :
    AppliedMarkers(b) = Range(ApplyMarkers(binders[b].mfn, binders[b].data))

\* the marker input was changed from marking the first point to marking the
\* last one over the data <<1, 2>>: the series carries a plugin with the
\* marker of point 1 and one with the marker of point 2
C20_Witness ==
  /\ last.op = "SetData"
  /\ binders[last.b].data = <<1, 2>> /\ binders[last.b].mfn = "last"
  /\ lib[last.b].data = <<1, 2>>
  /\ lib[last.b].plugins = << <<1>>, <<2>> >>

CreateCalls == {"chart.addSeries", "chart.addCustomSeries", "onCreateSeries"}

C21_Step ==
  /\ last'.op = "MountSeries" =>
       LET b == last'.b
           idx == IndexIn(binders', panes, b)
       IN /\ Len(calls') >= 2
          /\ calls'[1] = Call(IF binders'[b].custom THEN "chart.addCustomSeries"
                              ELSE "chart.addSeries", b, idx, <<>>, <<>>)
          /\ calls'[2] = Call("onCreateSeries", b, idx, <<>>, <<>>)
          /\ Len(Named(calls', CreateCalls)) = 2
          /\ Len(lib') = Len(lib) + 1
  /\ last'.op # "MountSeries" =>
       /\ Named(calls', CreateCalls) = <<>>
       /\ Len(lib') = Len(lib)

\* C21: the step that mounts a series binder calls addSeries (or
\* addCustomSeries) once, first, with the index its Pane declaration had
\* resolved before the step, or 0 without a Pane declaration, and calls
\* onCreateSeries once, second, with the same index, before every setData,
\* applyOptions and attachPrimitive of the step; no other step creates a
\* series or calls onCreateSeries.
C21_CreatedOnce == [][C21_Step]_vars

\* a series has been mounted inside a Pane declaration that resolved to 1
C21_Witness ==
  /\ last.op = "MountSeries"
  /\ last.d # 0 /\ panes[last.d].memo = 1
  /\ calls[1] = Call("chart.addSeries", last.b, 1, <<>>, <<>>)
  /\ calls[2] = Call("onCreateSeries", last.b, 1, <<>>, <<>>)
  /\ \E i \in 3..Len(calls) : calls[i].f = "series.setData"

InstanceCalls == {"createChart", "onCreateChart", "chart.remove"}

C22_Step ==
  /\ last'.op = "MountChart" =>
       /\ chart.status = "none"
       /\ chart'.status = "live" /\ chart'.nextPaneIndex = 1
       /\ Named(calls', InstanceCalls) =
            << Call("createChart", 0, 0, <<>>, <<>>),
               Call("onCreateChart", 0, 0, <<>>, <<>>) >>
       /\ calls'[1].f = "createChart" /\ calls'[2].f = "onCreateChart"
  /\ last'.op = "UnmountChart" =>
       /\ chart.status = "live" /\ chart'.status = "removed"
       /\ Named(calls', InstanceCalls) = <<Call("chart.remove", 0, 0, <<>>, <<>>)>>
       /\ calls'[Len(calls')].f = "chart.remove"
  /\ last'.op \notin {"MountChart", "UnmountChart"} =>
       /\ Named(calls', InstanceCalls) = <<>>
       /\ chart'.status = chart.status
  /\ chart.status = "removed" => chart'.status = "removed"
  /\ last'.op \in {"MountPane", "MountSeries", "MountTooltip"} =>
       chart.status = "live" /\ chart.nextPaneIndex >= 1

\* C22: the step that mounts the Chart Host is the only one that calls
\* createChart and onCreateChart, once each and in this order, and it leaves
\* the pane counter at 1; the step that unmounts it is the only one that
\* calls remove, once and last; a removed chart stays removed; and a Pane,
\* a series or a Tooltip is activated only while the chart is live with its
\* counter initialised.
C22_OneInstance == [][C22_Step]_vars

\* the chart of a host that had a Pane, a series and a tooltip inside has
\* been removed
C22_Witness ==
  /\ last.op = "UnmountChart"
  /\ chart.status = "removed"
  /\ Len(panes) >= 1 /\ Len(binders) >= 1
  /\ calls[Len(calls)].f = "chart.remove"

C23_Step ==
  /\ last'.op = "MountTooltip" => ~tip'.visible
  /\ (tip.status = "mounted" /\ tip'.status = "mounted"
      /\ tip'.visible # tip.visible) => last'.op = "CrosshairMove"

\* C23: a tooltip is hidden when it is mounted, and while it is mounted its
\* visibility differs before and after a step only if the step is the
\* delivery of a crosshair-move event; changes of its inputs, of a series'
\* data or of the chart's size leave it as it was.
C23_OnlyCrosshair == [][C23_Step]_vars

\* the data of a series has been replaced while the tooltip was visible
C23_Witness ==
  /\ last.op = "SetData"
  /\ tip.status = "mounted"
  /\ tip.visible

\* the tooltip state an event carries
EventState(e) ==
  [seriesData |-> e.seriesData, point |-> e.point, time |-> e.time]

ContentCalls == {"children", "component"}

C24_Step ==
  /\ \A i \in 1..Len(calls') :
       calls'[i].f \in ContentCalls =>
         /\ last'.op = "CrosshairMove"
         /\ calls'[i].v = <<EventState(last'.arg[1])>>
         /\ last'.arg[1].point.def
         /\ last'.arg[1].time # Undefined
  /\ (last'.op = "CrosshairMove" /\ tip'.visible) =>
       tip'.props = EventState(last'.arg[1])
  /\ (last'.op # "CrosshairMove" /\ tip'.visible) =>
       tip.visible /\ tip'.props = tip.props
  /\ tip'.visible =>
       /\ tip'.props # InitialTooltipProps
       /\ tip'.props.point.def
       /\ tip'.props.time # Undefined

\* C24: every call of the children function and every state given to the
\* content component carries the seriesData, point and time of the event
\* being delivered, with point and time defined; while the tooltip is
\* visible its stored state is the state of the last event that showed it,
\* never the initial placeholder, and no other step changes it.
C24_OneEvent == [][C24_Step]_vars

\* the event with seriesData m2 has been delivered and the children function
\* called with its state
C24_Witness ==
  /\ last.op = "CrosshairMove"
  /\ tip.visible
  /\ tip.props.seriesData = "m2"
  /\ \E i \in 1..Len(calls) :
       calls[i].f = "children" /\ calls[i].v = <<tip.props>>

RenderingCalls == ContentCalls \cup {"onPositionCalculated"}

\* C25: the children function, the content component and the
\* onPositionCalculated hook are invoked only in steps that deliver a
\* crosshair-move event and leave the tooltip visible.
C25_RenderOnlyVisible ==
  \A i \in 1..Len(calls) :
    calls[i].f \in RenderingCalls =>
      (last.op = "CrosshairMove" /\ tip.visible)

\* a Tooltip with an onPositionCalculated hook has been mounted: the hook
\* was called with the position of the placeholder point while the tooltip
\* is hidden
C25_Witness ==
  /\ last.op = "MountTooltip"
  /\ ~tip.visible
  /\ tip.props = InitialTooltipProps
  /\ \E i \in 1..Len(calls) :
       calls[i] = Call("onPositionCalculated", 0, 0, <<>>, <<7, 7>>)

\* the position of the claim: point plus offset, each offset component the
\* user did not supply being 8, plus the container's viewport origin when
\* fixed
ClaimedPosition(tp) ==
  LET ox == IF tp.cfg.offset.given /\ tp.cfg.offset.x.def
            THEN tp.cfg.offset.x.n ELSE 8
      oy == IF tp.cfg.offset.given /\ tp.cfg.offset.y.def
            THEN tp.cfg.offset.y.n ELSE 8
  IN [left |-> tp.props.point.x + ox + (IF tp.cfg.fixed THEN tp.rect.left ELSE 0),
      top |-> tp.props.point.y + oy + (IF tp.cfg.fixed THEN tp.rect.top ELSE 0)]

\* C26: the hook is called with the claimed position, and the applied
\* position is the hook's result, or the claimed position without a hook.
C26_Position ==
  tip.status = "mounted" =>
    /\ \A i \in 1..Len(calls) :
         calls[i].f = "onPositionCalculated" =>
           calls[i].v = <<ClaimedPosition(tip).left, ClaimedPosition(tip).top>>
    /\ tip.pos = ApplyHook(tip.cfg.hook, ClaimedPosition(tip))

\* a visible tooltip with offset = {x: 5} at the point (0, 0): its top is 10
C26_Witness ==
  /\ tip.status = "mounted"
  /\ tip.visible
  /\ tip.cfg.offset = Offset(Some(5), Absent)
  /\ tip.cfg.hook = "none" /\ ~tip.cfg.fixed
  /\ tip.props.point = Point(0, 0)
  /\ tip.pos = [left |-> 5, top |-> 10]

\* the subscribe or unsubscribe calls of a step that name the tooltip's
\* handler
TooltipCalls(s, f) ==
  SelectSeq(s, LAMBDA c : c.f = f /\ c.p = <<"tooltip">>)

C27_Step ==
  /\ last'.op = "MountTooltip" =>
       /\ Len(TooltipCalls(calls', "chart.subscribe")) = 1
       /\ TooltipCalls(calls', "chart.unsubscribe") = <<>>
       /\ Count(subs[3], "tooltip") = 0 /\ Count(subs'[3], "tooltip") = 1
  /\ (tip.status = "mounted" /\ tip'.status = "none") =>
       /\ Len(TooltipCalls(calls', "chart.unsubscribe")) = 1
       /\ TooltipCalls(calls', "chart.subscribe") = <<>>
       /\ Count(subs'[3], "tooltip") = 0
  /\ (last'.op # "MountTooltip" /\ tip'.status = tip.status) =>
       /\ TooltipCalls(calls', "chart.subscribe") = <<>>
       /\ TooltipCalls(calls', "chart.unsubscribe") = <<>>
  /\ (last'.op = "CrosshairEvent" /\ tip.status # "mounted") =>
       /\ tip' = tip
       /\ Named(calls', {"onShow", "onHide"} \cup RenderingCalls) = <<>>

\* C27: the step that mounts a Tooltip subscribes its handler once, the step
\* that tears it down unsubscribes that handler once and leaves no tooltip,
\* no other step subscribes or unsubscribes it, and a crosshair-move event
\* raised while no Tooltip is mounted leaves the tooltip state alone and
\* calls neither onShow nor onHide nor any rendering function.
C27_Subscription == [][C27_Step]_vars

\* a Tooltip has been torn down in a chart that has crosshair-move handlers
\* of its own: its handler is unsubscribed, theirs stay
C27_Witness ==
  /\ last.op = "UnmountTooltip"
  /\ tip.status = "none"
  /\ calls = <<Call("chart.unsubscribe", 3, 0, <<"tooltip">>, <<>>)>>
  /\ subs[3] = <<"h1", "h2">>

SeriesOps ==
  {"series.setData", "series.applyOptions", "series.attachPrimitive",
   "series.detachPrimitive"}

\* the position in s of the first call f on the series b, 0 if there is none
PositionOf(s, f, b) ==
  IF \E i \in 1..Len(s) : s[i].f = f /\ s[i].on = b
  THEN CHOOSE i \in 1..Len(s) :
         /\ s[i].f = f /\ s[i].on = b
         /\ \A j \in 1..(i - 1) : ~(s[j].f = f /\ s[j].on = b)
  ELSE 0

C28_Step ==
  /\ \A b \in MountedBinders \ MountedBinders' :
       LET r == PositionOf(calls', "chart.removeSeries", b)
           bd == binders[b]
       IN /\ r > 0
          /\ Len(SelectSeq(calls', LAMBDA c : c.f = "chart.removeSeries"
                                               /\ c.on = b)) = 1
          /\ SelectSeq(SubSeq(calls', 1, r - 1),
                       LAMBDA c : c.f = "series.detachPrimitive" /\ c.on = b)
               = SeriesDetachCalls(b, bd.sprims)
          /\ bd.seriesPane # NoPane =>
               \A k \in 1..Len(bd.capPane) :
                 \E i \in 1..(r - 1) :
                   calls'[i] = Call("pane.detachPrimitive", bd.seriesPane, 0,
                                    <<bd.capPane[k]>>, <<>>)
          /\ PositionOf(calls', "onRemoveSeries", b) > r
          /\ \A i \in (r + 1)..Len(calls') :
               calls'[i].f \in SeriesOps => calls'[i].on # b
          /\ lib'[b].state = "removed" /\ lib'[b].att = <<>>
  /\ \A i \in 1..Len(calls') :
       (calls'[i].f \in SeriesOps /\ calls'[i].on <= Len(lib)) =>
         lib[calls'[i].on].state # "removed"

\* C28: in the step that disposes a series binder, removeSeries is called
\* once for its series, after detachPrimitive on the series for each of its
\* own primitives and after detachPrimitive on its pane for each primitive
\* of the pane-scope list it had attached, and before onRemoveSeries; no
\* setData, applyOptions, attachPrimitive or detachPrimitive is issued on the
\* series after removeSeries, in that step or in any later one.
C28_Teardown == [][C28_Step]_vars

\* a series with the primitives <<s1, s2>> of its own inside a Pane with the
\* list <<p1, p2>> has been unmounted
C28_Witness ==
  /\ last.op = "UnmountSeries"
  /\ last.d # 0
  /\ Len(Named(calls, {"series.detachPrimitive"})) = 2
  /\ Len(Named(calls, {"pane.detachPrimitive"})) = 2
  /\ calls[Len(calls) - 1].f = "chart.removeSeries"
  /\ calls[Len(calls)].f = "onRemoveSeries"

PaneDetachCalls(pane, list) ==
  [k \in 1..Len(list) |-> Call("pane.detachPrimitive", pane, 0, <<list[k]>>, <<>>)]
PaneAttachCalls(pane, list) ==
  [k \in 1..Len(list) |-> Call("pane.attachPrimitive", pane, 0, <<list[k]>>, <<>>)]

\* the calls of one run of the pane-scope effect of a binder: the cleanup of
\* the previous run, if there was one, and the body
CleanupCalls(old) ==
  (IF old.seriesPane = NoPane THEN <<>>
   ELSE PaneDetachCalls(old.seriesPane, old.capPane))
  \o <<ScopeCall("detached", old)>>
BodyCalls(new) ==
  (IF new.seriesPane = NoPane THEN <<>>
   ELSE PaneDetachCalls(new.seriesPane, new.capPane)
        \o PaneAttachCalls(new.seriesPane, new.capPane))
  \o <<ScopeCall("attached", new)>>

\* the calls of the re-runs of the first n binders of R, in binder order
RECURSIVE RerunCalls(_, _, _, _)
RerunCalls(R, n, old, new) ==
  IF n = 0 THEN <<>>
  ELSE RerunCalls(R, n - 1, old, new)
       \o CleanupCalls(old[Kth(R, n)]) \o BodyCalls(new[Kth(R, n)])

PaneScopeCalls == PaneCalls \cup ChartCallbacks \cup PaneCallbacks

\* every mounted binder of bs on the pane object i has attached the same
\* list
OneList(bs, i) ==
  \A b1, b2 \in 1..Len(bs) :
    (/\ bs[b1].state = "mounted" /\ bs[b2].state = "mounted"
     /\ bs[b1].seriesPane = i /\ bs[b2].seriesPane = i) =>
      bs[b1].capPane = bs[b2].capPane

\* C29: the first run of the pane-scope effect of a series calls
\* attachPrimitive for every primitive of its list, in list order, before
\* it invokes the attached callback with that list.
C29_EveryRun ==
  (last.op = "MountSeries") =>
    AttachedIn(calls) = binders[last.b].capPane

C29_Step ==
  /\ last'.op = "MountSeries" =>
       Named(calls', PaneScopeCalls) = BodyCalls(binders'[last'.b])
  /\ last'.op \in {"SetChartPrimitives", "SetPanePrimitives"} =>
       LET R == IF last'.op = "SetChartPrimitives" THEN ChartScopeReaders
                ELSE PaneScopeReaders(last'.d)
       IN Named(calls', PaneScopeCalls) =
            RerunCalls(R, Cardinality(R), binders, binders')
  /\ last'.op \in {"MountSeries", "SetChartPrimitives", "SetPanePrimitives"} =>
       LET ran == CASE last'.op = "MountSeries" -> {last'.b}
                    [] last'.op = "SetChartPrimitives" -> ChartScopeReaders
                    [] OTHER -> PaneScopeReaders(last'.d)
       IN \A b \in ran :
            LET i == binders'[b].seriesPane IN
            i # NoPane =>
              /\ \A p \in Range(binders'[b].capPane) : Count(paneAtt'[i], p) = 1
              /\ OneList(binders', i) => paneAtt'[i] = binders'[b].capPane

\* What holds of the runs of the pane-scope effect (C29 for the series
\* whose pane object exists): a run calls detachPrimitive on the pane for
\* every primitive of the list, then attachPrimitive for every primitive in
\* list order, then the attached callback with the list, at the first run
\* as at every re-run (which the cleanup of the previous run precedes);
\* afterwards each primitive of the list is attached to the pane once, and
\* the pane holds exactly the list when everything mounted on it attached
\* that list.  A run for a series without pane object calls only the
\* attached callback.
C29_DetachThenAttach == [][C29_Step]_vars

\* a series has been mounted in the second of two Pane declarations while
\* the chart had the default pane only: the attached callback got the
\* declaration's list and no primitive was attached
C29_Witness ==
  /\ last.op = "MountSeries"
  /\ binders[last.b].seriesPane = NoPane
  /\ binders[last.b].capPane = <<"p1", "p2">>
  /\ Named(calls, PaneCalls) = <<>>
  /\ Named(calls, PaneCallbacks) =
       <<Call("pane.onAttachPrimitives", last.d, 0, <<"p1", "p2">>, <<>>)>>


----------------------------------------------------------------------------
\* the call families of the four effects of a series binder
DataFamily == {"series.setData", "onSetData", "markers",
               "createSeriesMarkers", "onSetMarkers"}
OptionsFamily == {"series.applyOptions"}
SeriesPrimFamily == {"series.attachPrimitive", "series.detachPrimitive",
                     "onAttachPrimitives", "onDetachPrimitives"}
PaneScopeFamily == PaneCalls \cup ChartCallbacks \cup PaneCallbacks

\* every call of s is of the family F
OnlyFamily(s, F) == \A k \in 1..Len(s) : s[k].f \in F

C30_Step ==
  /\ last'.op = "SetData" =>
       /\ OnlyFamily(calls', DataFamily)
       /\ Len(Named(calls', {"series.setData"})) = 1
       /\ \A k \in 1..Len(calls') : calls'[k].on = last'.b
       /\ lib'[last'.b].att = lib[last'.b].att
       /\ lib'[last'.b].opts = lib[last'.b].opts
       /\ paneAtt' = paneAtt
  /\ last'.op = "SetOptions" =>
       /\ calls' = <<Call("series.applyOptions", last'.b, 0, <<>>, <<>>)>>
       /\ lib'[last'.b].data = lib[last'.b].data
       /\ lib'[last'.b].plugins = lib[last'.b].plugins
       /\ lib'[last'.b].att = lib[last'.b].att
       /\ paneAtt' = paneAtt
  /\ last'.op = "SetSeriesPrimitives" =>
       /\ OnlyFamily(calls', SeriesPrimFamily)
       /\ Named(calls', {"onAttachPrimitives"}) =
            <<Call("onAttachPrimitives", last'.b, 0,
                   binders'[last'.b].sprims, <<>>)>>
       /\ lib'[last'.b].data = lib[last'.b].data
       /\ lib'[last'.b].plugins = lib[last'.b].plugins
       /\ lib'[last'.b].opts = lib[last'.b].opts
       /\ paneAtt' = paneAtt
  /\ last'.op \in {"SetChartPrimitives", "SetPanePrimitives"} =>
       /\ OnlyFamily(calls', PaneScopeFamily)
       /\ lib' = lib

\* C30: within one series binder a change of one input class runs only the
\* effect of that class: a data change makes the data effect's calls only (no
\* primitive is attached or detached, no applyOptions); a style-option change
\* makes one applyOptions call and nothing else; a change of the series
\* primitive list makes series-level detach/attach calls and their callbacks
\* only; a change of the chart's or the Pane's primitive list makes pane-level
\* detach/attach calls and their callbacks only, and leaves the series as
\* the library holds it (data, markers, primitives, options) unchanged.
C30_OwnEffectOnly == [][C30_Step]_vars

\* a data change of a binder that has series primitives attached, pane
\* primitives attached to its pane and options that were changed before
C30_Witness ==
  /\ last.op = "SetData"
  /\ Len(calls) = 5
  /\ lib[last.b].att = <<"s1", "s2">>
  /\ \E i \in 0..MaxSeries : paneAtt[i] = <<"p1", "p2">>
  /\ lib[last.b].opts = "o2"
  /\ lib[last.b].data = <<2>>

----------------------------------------------------------------------------
\* the state and the calls with every binder taken as a built-in Series
PlainBinders(bs) ==
  [i \in 1..Len(bs) |-> [bs[i] EXCEPT !.via = "component", !.custom = FALSE]]
Plain(w) == [w EXCEPT !.binders = PlainBinders(w.binders), !.calls = <<>>]
PlainCalls(s) ==
  [k \in 1..Len(s) |-> IF s[k].f = "chart.addCustomSeries"
                       THEN [s[k] EXCEPT !.f = "chart.addSeries"] ELSE s[k]]

\* what the built-in Series binder does in the step `l` with the inputs of
\* the state `to`, from the state w
SeriesReference(w, l, to) ==
  LET b == l.b
      nb == to.binders[b]
      ofChart == { i \in 1..Len(w.binders) : w.binders[i].readIdx = 0 }
      ofPane == { i \in 1..Len(w.binders) :
                    w.binders[i].decl = l.d /\ w.binders[i].readIdx # 0 }
  IN CASE l.op = "MountSeries" ->
            SeriesOnMount(w, l.d, FALSE, nb.data, nb.mfn, nb.sprims, nb.opts)
       [] l.op = "SetData" ->
            DataEffect([w EXCEPT !.binders[b].data = nb.data,
                                 !.binders[b].mfn = nb.mfn], b)
       [] l.op = "SetOptions" ->
            OptionsEffect([w EXCEPT !.binders[b].opts = nb.opts], b)
       [] l.op = "SetSeriesPrimitives" ->
            RerunSeriesPrimitivesEffect(
              [w EXCEPT !.binders[b].sprims = nb.sprims], b)
       [] l.op = "SetChartPrimitives" ->
            RerunFrom([w EXCEPT !.host.prims = to.host.prims], 1,
                      ofChart)
       [] l.op = "SetPanePrimitives" ->
            RerunFrom([w EXCEPT !.panes[l.d].prims = to.panes[l.d].prims], 1,
                      ofPane)
       [] l.op = "UnmountSeries" -> DisposeSeries(w, b)
       [] OTHER -> w

BinderOps == {"MountSeries", "SetData", "SetOptions", "SetSeriesPrimitives",
              "SetChartPrimitives", "SetPanePrimitives", "UnmountSeries"}

C31_Step ==
  last'.op \in BinderOps =>
    LET ref == SeriesReference(Plain(World), last', World')
    IN /\ PlainCalls(calls') = ref.calls
       /\ Plain(World') = Plain(ref)
       /\ last'.op = "MountSeries" =>
            calls'[1].f = IF binders'[last'.b].custom
                          THEN "chart.addCustomSeries" ELSE "chart.addSeries"

\* C31: whichever code made a binder (the built-in Series, the inline
\* CustomSeries or the helper createCustomSeries), each step on it (mount, a
\* change of data, options or a primitive list, unmount) makes the calls and
\* leaves the state that the built-in Series binder makes from the same
\* state with the same inputs, except for the name of the creation call,
\* addCustomSeries for the two custom kinds.
C31_SameOperations == [][C31_Step]_vars

\* a binder made by the helper, in a Pane with primitives, has its series
\* primitive list replaced
C31_Witness ==
  /\ last.op = "SetSeriesPrimitives"
  /\ binders[last.b].via = "helper"
  /\ binders[last.b].decl = 1
  /\ binders[last.b].capPane = <<"p1", "p2">>
  /\ Len(calls) = 5

----------------------------------------------------------------------------
\* the primitive list in force for the pane of the binder b: the Chart
\* Host's for pane index 0, its Pane declaration's otherwise
ActiveList(b) ==
  IF IndexOf(b) = 0 THEN host.prims ELSE panes[binders[b].decl].prims

\* C32: between steps, every primitive of the list in force for the pane of
\* a mounted series binder is attached to that pane, also after another
\* binder of the same pane was unmounted.
C32_Attached ==
  \A b \in MountedBinders :
    binders[b].seriesPane # NoPane =>
      Range(ActiveList(b)) \subseteq Range(paneAtt[binders[b].seriesPane])

\* two series directly under the chart share pane 0; the second was
\* unmounted, the first is mounted and the pane has no primitive left
C32_Witness ==
  /\ last.op = "UnmountSeries"
  /\ last.b = 2
  /\ binders[1].state = "mounted"
  /\ binders[1].seriesPane = 0
  /\ binders[2].seriesPane = 0
  /\ binders[1].decl = 0
  /\ host.prims = <<"p1", "p2">>
  /\ binders[1].capPane = <<"p1", "p2">>
  /\ paneAtt[0] = <<>>

----------------------------------------------------------------------------
\* the operations on the chart, its series and its panes
ChartOperations ==
  {"chart.removeSeries", "chart.addSeries", "chart.addCustomSeries",
   "series.setData", "series.applyOptions", "createSeriesMarkers",
   "series.attachPrimitive", "series.detachPrimitive",
   "pane.attachPrimitive", "pane.detachPrimitive",
   "chart.resize", "chart.applyOptions",
   "chart.subscribe", "chart.unsubscribe"}

\* the positions in s of the calls equal to c
PositionsOf(s, c) == { i \in 1..Len(s) : s[i] = c }

C33_Step ==
  /\ last'.op = "UnmountChart" =>
       LET n == Len(calls')
           remove == Call("chart.remove", 0, 0, <<>>, <<>>)
       IN /\ PositionsOf(calls', remove) = {n}
          /\ \A b \in MountedBinders :
               /\ PositionsOf(calls', Call("chart.removeSeries", b, 0, <<>>, <<>>))
                    # {}
               /\ \A k \in 1..Len(binders[b].capSeries) :
                    PositionsOf(calls', Call("series.detachPrimitive", b, 0,
                                             <<binders[b].capSeries[k]>>, <<>>)) # {}
          /\ tip.status = "mounted" =>
               PositionsOf(calls', Call("chart.unsubscribe", 3, 0,
                                        <<"tooltip">>, <<>>)) # {}
          /\ \A k \in 1..3 : \A j \in 1..Len(host.cap[k].hs) :
               PositionsOf(calls', Call("chart.unsubscribe", k, 0,
                                        <<host.cap[k].hs[j]>>, <<>>)) # {}
          /\ MountedBinders' = {}
          /\ tip'.status = "none"
          /\ host'.status = "disposed"
  /\ chart.status = "removed" => Named(calls', ChartOperations) = <<>>

\* C33: the unmount of the Chart Host calls chart.remove() once, as the last
\* call of the step: the removeSeries and detach calls of every mounted
\* binder, the tooltip's unsubscription and the unsubscription of every
\* handler of the host come before it; after it no binder, tooltip or host
\* effect is left, and no step makes an operation on the chart, its series
\* or its panes.
C33_RemoveLast == [][C33_Step]_vars

\* a chart with handlers, a tooltip and a series with a series primitive is
\* unmounted
C33_Witness ==
  /\ last.op = "UnmountChart"
  /\ chart.status = "removed"
  /\ Len(calls) >= 8
  /\ calls[Len(calls)].f = "chart.remove"
  /\ calls[1] = Call("chart.unsubscribe", 3, 0, <<"tooltip">>, <<>>)
  /\ Len(Named(calls, {"chart.removeSeries"})) = 1
  /\ Len(Named(calls, {"chart.unsubscribe"})) = 4

----------------------------------------------------------------------------
\* the binders whose onMount threw, unmounted since or not
Failed == { b \in 1..Len(binders) :
              \/ binders[b].state = "failed"
              \/ binders[b].state = "unmounted" /\ lib[b].state = "added" }

\* the calls of s on the series of the binder b
OnSeries(s, b) ==
  SelectSeq(s, LAMBDA c : c.on = b /\ c.f \in
    (DataFamily \cup OptionsFamily \cup SeriesPrimFamily
       \cup {"chart.removeSeries", "onRemoveSeries"}))

C34_Step ==
  /\ last'.op = "MountSeriesThrowing" =>
       /\ calls' = <<Call("chart.addSeries", last'.b, binders'[last'.b].createdIdx,
                          <<>>, <<>>),
                     Call("onCreateSeries", last'.b, binders'[last'.b].createdIdx,
                          <<>>, <<"throws">>)>>
       /\ lib'[last'.b] = [state |-> "added", pane |-> lib'[last'.b].pane,
                           data |-> <<>>, plugins |-> <<>>, att |-> <<>>,
                           opts |-> "none"]
       /\ paneAtt' = paneAtt
       /\ last'.b \in Failed'
  /\ \A b \in Failed :
       /\ OnSeries(calls', b) = <<>>
       /\ lib'[b] = lib[b]
       /\ b \in Failed'

\* C34: when onCreateSeries throws in the activation of a series binder the
\* step makes the creation call and the callback and nothing else: the
\* series is in the chart, without data, markers, primitives or applied
\* options.  From then on no step (a change of the binder's inputs, of the
\* chart's or the Pane's primitives, the unmount of the binder or of the
\* chart) makes a call on that series; it is never removed with
\* removeSeries.
C34_Abandoned == [][C34_Step]_vars

\* the chart is unmounted while a binder whose onMount threw and a working
\* binder are in it: the working one's series is removed, the other is not
C34_Witness ==
  /\ last.op = "UnmountChart"
  /\ Len(binders) = 2
  /\ binders[1].state = "failed"
  /\ lib[1].state = "added"
  /\ lib[2].state = "removed"
  /\ Named(calls, {"chart.removeSeries"}) =
       <<Call("chart.removeSeries", 2, 0, <<>>, <<>>)>>
  /\ calls[Len(calls)].f = "chart.remove"

----------------------------------------------------------------------------
\* the scope a binder created with the pane index i takes its pane-scope
\* primitives and callbacks from
ScopeOfIndex(i) == IF i = 0 THEN "chart" ELSE "pane"

C35_Step ==
  /\ \A b \in MountedBinders' :
       /\ binders'[b].seriesPane \in {NoPane, binders'[b].createdIdx}
       /\ binders'[b].capDetach = ScopeOfIndex(binders'[b].createdIdx)
       /\ binders'[b].capPane =
            IF binders'[b].createdIdx = 0 THEN host'.prims
            ELSE panes'[binders'[b].decl].prims
  /\ last'.op = "UnmountSeries" =>
       Named(calls', {"onRemoveSeries"}) =
         <<Call("onRemoveSeries", last'.b, binders[last'.b].createdIdx,
                <<>>, <<>>)>>

\* C35: in every state of the lifetime of a series binder the pane object of
\* its pane-scope effect, the scope (chart or Pane) its primitive list and
\* callbacks come from, and the index given to onRemoveSeries are those of
\* the pane index the series was created with, whatever the index input of
\* the enclosing Pane becomes.
C35_CreationIndex == [][C35_Step]_vars

\* a series created in pane 1 of a Pane declaration whose index input was
\* then set to 0: the Chart Host's list is attached to pane 1
C35_Witness ==
  /\ last.op = "SetPaneIndex"
  /\ panes[last.d].memo = 0
  /\ \E b \in MountedBinders :
       /\ binders[b].decl = last.d
       /\ binders[b].createdIdx = 1
       /\ binders[b].seriesPane = 1
       /\ binders[b].capDetach = "chart"
       /\ binders[b].capPane = <<"p1">>
       /\ paneAtt[1] = <<"p1">>

----------------------------------------------------------------------------
\* the calls of s that are callbacks of the Pane declaration d
CallbacksOfPane(s, d) ==
  SelectSeq(s, LAMBDA c : c.f \in PaneCallbacks /\ c.on = d)

C36_Step ==
  /\ ChartScopeReaders \cup ChartScopeReaders' = {} =>
       /\ Named(calls', ChartCallbacks) = <<>>
       /\ paneAtt'[0] = <<>>
  /\ \A d \in 1..MaxPanes :
       PaneScopeReaders(d) \cup PaneScopeReaders(d)' = {} =>
         CallbacksOfPane(calls', d) = <<>>
  /\ \A k \in 1..Len(calls') :
       calls'[k].f = "pane.attachPrimitive" =>
         \E b \in MountedBinders \cup MountedBinders' :
           /\ b \in 1..Len(binders')
           /\ binders'[b].seriesPane = calls'[k].on
  /\ last'.op \in {"MountChart", "MountPane"} =>
       Named(calls', PaneCalls \cup ChartCallbacks \cup PaneCallbacks) = <<>>
  /\ last'.op = "SetChartPrimitives" =>
       /\ Named(calls', {"onPrimitivesAttached"}) =
            [k \in 1..Cardinality(ChartScopeReaders) |->
               Call("onPrimitivesAttached", 0, 0, host'.prims, <<>>)]
       /\ Named(calls', PaneCallbacks) = <<>>
  /\ last'.op = "SetPanePrimitives" =>
       /\ Named(calls', {"pane.onAttachPrimitives"}) =
            [k \in 1..Cardinality(PaneScopeReaders(last'.d)) |->
               Call("pane.onAttachPrimitives", last'.d, 0,
                    panes'[last'.d].prims, <<>>)]
       /\ Named(calls', ChartCallbacks) = <<>>

\* C36: the primitive list of the Chart Host or of a Pane declaration is
\* attached only by the series binders that read it.  In a step before and
\* after which no binder reads the chart's list, no chart callback is
\* invoked and pane 0 has no primitive; likewise no callback of a Pane
\* declaration without a reading binder; every attachPrimitive call is on
\* the pane object of a mounted binder; mounting the chart or a Pane makes
\* no primitive call.  A change of a list invokes the attached callback once
\* for each of the k binders reading it, with the new list, and no callback
\* of the other scope.
C36_OnlyThroughBinders == [][C36_Step]_vars

\* the list of a Pane declaration with two series is replaced while the
\* chart has a list and no series in its own scope
C36_Witness ==
  /\ last.op = "SetPanePrimitives"
  /\ Cardinality(PaneScopeReaders(last.d)) = 2
  /\ ChartScopeReaders = {}
  /\ host.prims = <<"p1", "p2">>
  /\ paneAtt[0] = <<>>
  /\ panes[last.d].prims = <<"p1">>
  /\ Len(Named(calls, {"pane.onAttachPrimitives"})) = 2

----------------------------------------------------------------------------
\* the binders whose pane-scope effect runs, or is cleaned up, in the step
\* to `l`: `before` and `after` are the mounted binders around it
RanIn(l, before, after, chartReaders, paneReaders) ==
  CASE l.op = "MountSeries" -> after \ before
    [] l.op \in {"UnmountSeries", "UnmountPane", "UnmountChart"} ->
         before \ after
    [] l.op = "SetChartPrimitives" -> chartReaders
    [] l.op = "SetPanePrimitives" -> paneReaders
    [] OTHER -> {}

\* the binders mounted without a pane object
Paneless == { b \in MountedBinders : binders[b].seriesPane = NoPane }

C37_Step ==
  /\ \A b \in MountedBinders \cap MountedBinders' :
       binders'[b].seriesPane = binders[b].seriesPane
  /\ LET ran == RanIn(last', MountedBinders, MountedBinders',
                      ChartScopeReaders,
                      IF last'.d \in 1..Len(panes)
                      THEN PaneScopeReaders(last'.d) ELSE {})
         all == [b \in 1..Len(binders') |->
                   IF b \in 1..Len(binders) /\ binders[b].state = "mounted"
                   THEN binders[b] ELSE binders'[b]]
     IN (ran # {} /\ \A b \in ran : all[b].seriesPane = NoPane) =>
          /\ Named(calls', PaneCalls) = <<>>
          /\ paneAtt' = paneAtt
          /\ last'.op \in {"MountSeries", "SetPanePrimitives"} =>
               \A b \in ran :
                 Count(calls', Call("pane.onAttachPrimitives", all[b].decl, 0,
                                    binders'[b].capPane, <<>>)) >= 1
          /\ last'.op \notin {"MountSeries", "UnmountChart"} =>
               \A b \in ran :
                 Count(calls', Call("pane.onDetachPrimitives", all[b].decl, 0,
                                    binders[b].capPane, <<>>)) >= 1
          /\ last'.op \in {"MountSeries", "SetPanePrimitives"} =>
               Len(Named(calls', {"pane.onAttachPrimitives"})) = Cardinality(ran)
          /\ last'.op \in {"SetPanePrimitives", "UnmountSeries", "UnmountPane"} =>
               Len(Named(calls', {"pane.onDetachPrimitives"})) = Cardinality(ran)

\* C37: a series mounted when chart().panes() had no entry at its pane
\* index keeps no pane object for its whole lifetime, also when the chart
\* gets a pane at that index later.  A step in which only the pane-scope
\* effects of such series run or are cleaned up (mount, a change of the
\* Pane's list, unmount) makes no attachPrimitive and no detachPrimitive
\* call on any pane and leaves the panes as they were, while the Pane's
\* attached and detached callbacks are invoked with the list, once for each
\* of these series.
C37_NoPaneNoCalls == [][C37_Step]_vars

\* the list of a Pane declaration is replaced; its only series was mounted
\* when the chart had no pane at index 2, and the chart has one now
C37_Witness ==
  /\ last.op = "SetPanePrimitives"
  /\ PaneScopeReaders(last.d) # {}
  /\ \A b \in PaneScopeReaders(last.d) :
       binders[b].seriesPane = NoPane /\ binders[b].readIdx < chart.numPanes
  /\ calls = <<Call("pane.onDetachPrimitives", last.d, 0, <<"p1">>, <<>>),
               Call("pane.onAttachPrimitives", last.d, 0, <<"p1", "p2">>, <<>>)>>

----------------------------------------------------------------------------
\* the Pane declarations given the index 0
ZeroPanes(ps) == { d \in 1..Len(ps) : ps[d].alive /\ ps[d].index = 0 }

C38_Step ==
  /\ \A d \in ZeroPanes(panes') :
       /\ panes'[d].memo = 0
       /\ CallbacksOfPane(calls', d) = <<>>
       /\ \A b \in MountedBinders' :
            binders'[b].decl = d =>
              /\ binders'[b].createdIdx = 0
              /\ binders'[b].seriesPane = 0
              /\ binders'[b].capDetach = "chart"
              /\ binders'[b].capPane = host'.prims
  /\ \A d \in ZeroPanes(panes) : CallbacksOfPane(calls', d) = <<>>
  /\ (last'.op = "MountPane" /\ last'.d \in ZeroPanes(panes')) =>
       chart'.nextPaneIndex = chart.nextPaneIndex
  /\ (last'.op = "MountSeries" /\ last'.d \in ZeroPanes(panes)) =>
       /\ AttachedIn(calls') = host.prims
       /\ Named(calls', ChartCallbacks) =
            <<Call("onPrimitivesAttached", 0, 0, host.prims, <<>>)>>
  /\ (last'.op = "SetPanePrimitives" /\ last'.d \in ZeroPanes(panes)) =>
       /\ calls' = <<>>
       /\ paneAtt' = paneAtt
  /\ (last'.op = "UnmountSeries" /\ last'.d \in ZeroPanes(panes)) =>
       Named(calls', ChartCallbacks) =
         <<Call("onPrimitivesDetached", 0, 0, binders[last'.b].capPane, <<>>)>>

\* C38: a Pane declaration given the index 0 resolves to 0 without taking a
\* value of the chart's pane counter.  The series inside it are created in
\* pane 0 and take the Chart Host's list and callbacks: at mount exactly the
\* chart's list is attached and the chart's attached callback invoked, at
\* unmount the chart's detached callback.  No step invokes a callback of
\* the declaration, and a change of the declaration's own list makes no
\* call and leaves the panes unchanged.
C38_ZeroIsChartScope == [][C38_Step]_vars

\* the list of a Pane declaration with index 0 and a series inside is
\* replaced while the Chart Host has an empty list: nothing is attached
C38_Witness ==
  /\ last.op = "SetPanePrimitives"
  /\ last.d \in ZeroPanes(panes)
  /\ \E b \in MountedBinders : binders[b].decl = last.d
  /\ panes[last.d].prims = <<"p1", "p2">>
  /\ host.prims = <<>>
  /\ paneAtt[0] = <<>>
  /\ chart.nextPaneIndex = 1
  /\ calls = <<>>

----------------------------------------------------------------------------
\* the resize call and the resize callback for the size of the host h
ResizeCalls(h) ==
  <<Call("chart.resize", 0, 0, <<>>, <<h.width, h.height, h.force>>),
    Call("onResize", 0, 0, <<>>, <<h.width, h.height>>)>>

ResizeIn(s) == Named(s, {"chart.resize", "onResize"})

C39_Step ==
  /\ last'.op = "MountChart" =>
       ResizeIn(calls') = IF autoSize(host') THEN <<>> ELSE ResizeCalls(host')
  /\ last'.op = "SetAutoSize" =>
       ResizeIn(calls') =
         IF autoSize(host) /\ ~autoSize(host')
         THEN ResizeCalls([host' EXCEPT !.width = host.width,
                                        !.height = host.height,
                                        !.force = host.force])
         ELSE <<>>
  /\ (last'.op = "SetSize" /\ autoSize(host)) => calls' = <<>>

\* C39: the Chart Host calls resize with the current width, height and
\* forceRepaintOnResize and then onResize with the current width and height,
\* once, when it is mounted with autoSize disabled and whenever autoSize
\* goes from enabled to disabled; it makes neither call when mounted with
\* autoSize enabled, when autoSize goes from disabled to enabled or stays
\* enabled, and when width, height or forceRepaintOnResize change while
\* autoSize is enabled.
C39_FollowsAutoSize == [][C39_Step]_vars

\* autoSize has just been disabled: the resize uses the size the host has
\* now, and the effect reads the size from now on
C39_Witness ==
  /\ last.op = "SetAutoSize"
  /\ host.autoSize = "false"
  /\ host.resizeReadsSize
  /\ calls = <<Call("chart.resize", 0, 0, <<>>, <<1000, 500, TRUE>>),
               Call("onResize", 0, 0, <<>>, <<1000, 500>>),
               Call("chart.applyOptions", 0, 0, <<>>, <<>>)>>
====
